---- MODULE Spec2Model ----
(***************************************************************************)
(* Model of recoANNIE: the Hefty-mode timing histogram loop of             *)
(* build/crank/crank.cc (make_hefty_timing_hist, approve_event) and the    *)
(* raw-buffer demultiplexer of src/RawCard.cc and src/RawChannel.cc.       *)
(*                                                                         *)
(* The two TChains of a chunk are external inputs.  A field of a row is    *)
(* drawn from a small set at the place where the code first reads it       *)
(* (GetEntries, GetEntry, db_Label[m], db_Time[m], get_pulses(.,.,m)).     *)
(* Times are integers (ns); charges are integers (nC).                     *)
(***************************************************************************)
EXTENDS Integers, Sequences, FiniteSets, TLC

(***************************************************************************)
(* Program constants of crank.cc                                           *)
(***************************************************************************)
VETO_TIME == 1000
UNKNOWN_MINIBUFFER_LABEL == 0
BEAM_MINIBUFFER_LABEL == 1
NCV_MINIBUFFER_LABEL == 2
SOURCE_MINIBUFFER_LABEL == 4
COSMIC_MINIBUFFER_LABEL == 3
PERIODIC_MINIBUFFER_LABEL == 5
SOFTWARE_MINIBUFFER_LABEL == 7
MINRATE_MINIBUFFER_LABEL == 6
NUM_TIME_BINS == 100
HIST_RANGE == 80000
TANK_CHARGE_WINDOW_LENGTH == 40
UNIQUE_WATER_PMT_CUT == 8
TANK_CHARGE_CUT == 3
COINCIDENCE_TOLERANCE == 40
FIVE_SECONDS == 5000
NONHEFTY_BACKGROUND_START_TIME == 10
NONHEFTY_BACKGROUND_END_TIME == 8000
NONHEFTY_SIGNAL_START_TIME == 20000
NONHEFTY_SIGNAL_END_TIME == 80000
HEFTY_MINIBUFFER_TIME == 2000
HEFTY_BACKGROUND_START_TIME == 10
HEFTY_BACKGROUND_END_TIME == 300
HEFTY_SIGNAL_START_TIME == 10000
HEFTY_SIGNAL_END_TIME == 70000

\* std::numeric_limits<double>::lowest(): below every event time, and
\* lowest + VETO_TIME is still below every event time.
LOWEST == -2000000000

(***************************************************************************)
(* Bounds of the model                                                     *)
(***************************************************************************)
\* number of minibuffers of a readout that the model walks through
\* (NUM_HEFTY_MINIBUFFERS is 40 in crank.cc:39); with one minibuffer per
\* readout the minibuffers of a chunk follow one another across readouts
NUM_HEFTY_MINIBUFFERS == 1
MaxChunks == 2
MaxRows == 2
\* number of heftydb rows in all the chunks of one call
MaxReadouts == 2
\* modulus of unsigned long long arithmetic.  2^64 is outside the integers
\* of the model checker; every modulus above the largest timestamp wraps
\* the same subtractions
TimeModulus == 1073741824
\* RawCard: channels of a card, samples of a channel, trigger counters
MaxChannels == 2
MaxBufferSize == 4
MaxTriggers == 2

\* number of minibuffers with pulses on the primary channel in one call
MaxBusy == 1

\* number of add_pulse and add_pulses calls made on one RecoReadout
MaxInsertions == 3

\* number of water tank channels with pulses in one minibuffer
MaxTankChannels == 8

\* non-Hefty chains in one call, and entries in one chain
MaxChains == 2
MaxEntries == 1

\* ValueAndError operator calls in one run
MaxOps == 2

\* entries in the PMTData chain, and next() and previous() calls on one reader
MaxStreamLen == 4
MaxCalls == 5

\* entries of the beam index, readouts given to readout_pot and minibuffers
\* in one readout
MaxIndex == 2
MaxPotReadouts == 2
MaxPotMinibuffers == 2

\* the doubles of ValueAndError, scaled down: binary64 keeps 53 significant
\* bits and exponents of -1074 to 971 on a 53-bit whole significand
MantissaBits == 4
MinExponent == -5
MaxExponent == 5

\* sequence ids: the code only compares them (crank.cc:314, 326, 335), so
\* the k rows of a chunk draw their ids from 1..k
SequenceIDs == 1..MaxRows

\* db_Label values: a beam, a self-trigger, a source and a background label
Labels == {BEAM_MINIBUFFER_LABEL, NCV_MINIBUFFER_LABEL,
           SOURCE_MINIBUFFER_LABEL, SOFTWARE_MINIBUFFER_LABEL}

\* db_Time values (ns since the Unix epoch, never 0), 2050 ns apart
Times == {1000000, 1002050}

(***************************************************************************)
(* Small helpers                                                           *)
(***************************************************************************)
\* the difference itself, with its sign
Abs_Signed(x) == x

Abs(x) == IF x < 0 THEN -x ELSE x

\* all sequences over S of length lo..hi
\* KthKey with the keys taken in descending order
KthKey_Descending(keys, k) ==
  CHOOSE x \in keys : Cardinality({y \in keys : y > x}) = k

\* the k-th key (k = 0, 1, ...) of a std::map in iteration order: keys ascend
KthKey(keys, k) == CHOOSE x \in keys : Cardinality({y \in keys : y < x}) = k

(***************************************************************************)
(* annie::RecoReadout: pulses_ is a map keyed by (card, channel,           *)
(* minibuffer); a pulse is [start_time, charge].                           *)
(***************************************************************************)
water_pmt_cards == {3, 4, 5, 6, 8, 9, 10, 11, 13, 14, 15, 16, 18, 19, 20}

excluded_card_channel_pairs == {<<4, 1>>, <<8, 2>>, <<14, 0>>, <<18, 0>>}

HasKey(pulses, card, channel, mb) == <<card, channel, mb>> \in DOMAIN pulses

\* get_pulses: pulses_.at(card).at(channel).at(minibuffer); the caller
\* tests HasKey first, a missing key is std::out_of_range (MissingKey)
get_pulses(pulses, card, channel, mb) == pulses[<<card, channel, mb>>]

\* TankChannels without the test of the card
TankChannels_AllCards(pulses) ==
  {ch \in {<<k[1], k[2]>> : k \in DOMAIN pulses} :
     ch \notin excluded_card_channel_pairs}

\* the channels tank_charge loops over: water tank cards, not excluded
TankChannels(pulses) ==
  {ch \in {<<k[1], k[2]>> : k \in DOMAIN pulses} :
     ch[1] \in water_pmt_cards /\ ch \notin excluded_card_channel_pairs}

InWindow(pulse, start_time, end_time) ==
  pulse.start_time >= start_time /\ pulse.start_time < end_time

RECURSIVE WindowCharge(_, _, _)
WindowCharge(ps, start_time, end_time) ==
  IF ps = <<>> THEN 0
  ELSE (IF InWindow(Head(ps), start_time, end_time)
          THEN Head(ps).charge ELSE 0)
       + WindowCharge(Tail(ps), start_time, end_time)

RECURSIVE SumOver(_, _, _, _, _)
SumOver(chs, pulses, mb, start_time, end_time) ==
  IF chs = {} THEN 0
  ELSE LET ch == CHOOSE x \in chs : TRUE
       IN WindowCharge(pulses[<<ch[1], ch[2], mb>>], start_time, end_time)
          + SumOver(chs \ {ch}, pulses, mb, start_time, end_time)

\* tank_charge(minibuffer, start, end, num_unique_water_pmts): the charge
\* of the tank channels' pulses that start in [start, end), and the number
\* of channels with a pulse there.  threw: a tank channel without an entry
\* for the minibuffer (minibuffer_map.at)
tank_charge(pulses, mb, start_time, end_time) ==
  LET chs == TankChannels(pulses)
  IN IF \E ch \in chs : ~HasKey(pulses, ch[1], ch[2], mb)
       THEN [threw |-> TRUE, charge |-> 0, num_unique |-> 0]
       ELSE [threw |-> FALSE,
             charge |-> SumOver(chs, pulses, mb, start_time, end_time),
             num_unique |-> Cardinality({ch \in chs :
                \E i \in 1..Len(pulses[<<ch[1], ch[2], mb>>]) :
                   InWindow(pulses[<<ch[1], ch[2], mb>>][i],
                            start_time, end_time)})]

(***************************************************************************)
(* crank.cc: the cuts                                                      *)
(***************************************************************************)
\* is_background_minibuffer that knows the software label only
is_background_minibuffer_SoftwareOnly(label) ==
  label = SOFTWARE_MINIBUFFER_LABEL

\* crank.cc:126-131
is_background_minibuffer(label) ==
  label = SOFTWARE_MINIBUFFER_LABEL \/ label = PERIODIC_MINIBUFFER_LABEL
    \/ label = MINRATE_MINIBUFFER_LABEL

Verdict(threw, value, cuts) ==
  [threw |-> threw, value |-> value, cuts |-> cuts]

\* DeadTimeVeto without the veto time
DeadTimeVeto_NoVetoTime(event_time, old) == event_time <= old

\* crank.cc:138: the dead-time veto
DeadTimeVeto(event_time, old) == event_time <= old + VETO_TIME

\* approve_event with the coincidence cut evaluated before the other two
approve_event_CoincidenceFirst(event_time, old, first_ncv1_pulse, pulses, m) ==
  IF ~HasKey(pulses, 18, 0, m)
    THEN Verdict(TRUE, FALSE, <<"coincidence">>)
  ELSE IF ~(\E i \in 1..Len(get_pulses(pulses, 18, 0, m)) :
              Abs(first_ncv1_pulse.start_time
                  - get_pulses(pulses, 18, 0, m)[i].start_time)
                < COINCIDENCE_TOLERANCE)
    THEN Verdict(FALSE, FALSE, <<"coincidence">>)
  ELSE IF DeadTimeVeto(event_time, old)
    THEN Verdict(FALSE, FALSE, <<"coincidence", "veto">>)
  ELSE LET tc == tank_charge(pulses, m, first_ncv1_pulse.start_time,
                   first_ncv1_pulse.start_time + TANK_CHARGE_WINDOW_LENGTH)
       IN Verdict(tc.threw,
                  ~tc.threw /\ tc.num_unique < UNIQUE_WATER_PMT_CUT
                    /\ tc.charge < TANK_CHARGE_CUT,
                  <<"coincidence", "veto", "tank">>)

\* approve_event with the two thresholds of the tank cut exclusive
approve_event_StrictCuts(event_time, old, first_ncv1_pulse, pulses, m) ==
  IF DeadTimeVeto(event_time, old) THEN Verdict(FALSE, FALSE, <<"veto">>)
  ELSE
    LET tc == tank_charge(pulses, m, first_ncv1_pulse.start_time,
                 first_ncv1_pulse.start_time + TANK_CHARGE_WINDOW_LENGTH)
        ncv1_time == first_ncv1_pulse.start_time
    IN IF tc.threw THEN Verdict(TRUE, FALSE, <<"veto", "tank">>)
       ELSE IF tc.num_unique > UNIQUE_WATER_PMT_CUT
         THEN Verdict(FALSE, FALSE, <<"veto", "tank">>)
       ELSE IF tc.charge > TANK_CHARGE_CUT
         THEN Verdict(FALSE, FALSE, <<"veto", "tank">>)
       ELSE IF ~HasKey(pulses, 18, 0, m)
         THEN Verdict(TRUE, FALSE, <<"veto", "tank", "coincidence">>)
       ELSE LET ncv2 == get_pulses(pulses, 18, 0, m)
                found_coincidence ==
                  \E i \in 1..Len(ncv2) :
                     Abs(ncv1_time - ncv2[i].start_time)
                       < COINCIDENCE_TOLERANCE
            IN Verdict(FALSE, found_coincidence,
                       <<"veto", "tank", "coincidence">>)

\* approve_event: the value returned, whether a lookup threw, and the cuts
\* that were evaluated, in the order of their evaluation
approve_event(event_time, old, first_ncv1_pulse, pulses, m) ==
  IF DeadTimeVeto(event_time, old) THEN Verdict(FALSE, FALSE, <<"veto">>)
  ELSE
    LET tc == tank_charge(pulses, m, first_ncv1_pulse.start_time,
                 first_ncv1_pulse.start_time + TANK_CHARGE_WINDOW_LENGTH)
        ncv1_time == first_ncv1_pulse.start_time
    IN IF tc.threw THEN Verdict(TRUE, FALSE, <<"veto", "tank">>)
       ELSE IF tc.num_unique >= UNIQUE_WATER_PMT_CUT
         THEN Verdict(FALSE, FALSE, <<"veto", "tank">>)
       ELSE IF tc.charge >= TANK_CHARGE_CUT
         THEN Verdict(FALSE, FALSE, <<"veto", "tank">>)
       ELSE IF ~HasKey(pulses, 18, 0, m)
         THEN Verdict(TRUE, FALSE, <<"veto", "tank", "coincidence">>)
       ELSE LET ncv2 == get_pulses(pulses, 18, 0, m)
                found_coincidence ==
                  \E i \in 1..Len(ncv2) :
                     Abs(ncv1_time - ncv2[i].start_time)
                       < COINCIDENCE_TOLERANCE
            IN Verdict(FALSE, found_coincidence,
                       <<"veto", "tank", "coincidence">>)

\* TH1D::Fill on NUM_TIME_BINS bins over [0, 8e4): bin 0 is the underflow,
\* bin NUM_TIME_BINS + 1 the overflow
FindBin(x) ==
  IF x < 0 THEN 0
  ELSE IF x >= HIST_RANGE THEN NUM_TIME_BINS + 1
  ELSE 1 + ((x * NUM_TIME_BINS) \div HIST_RANGE)

Fill(hist, x) == [hist EXCEPT ![FindBin(x)] = @ + 1]

EmptyHist == [b \in 0..(NUM_TIME_BINS + 1) |-> 0]

(***************************************************************************)
(* Inputs of make_hefty_timing_hist                                        *)
(***************************************************************************)
Pulse(t, q) == [start_time |-> t, charge |-> q]

Min(a, b) == IF a < b THEN a ELSE b

(***************************************************************************)
(* crank.cc: ValueAndError.  A double is kept as a fraction <<numerator,   *)
(* denominator>> in lowest terms; a zero denominator is what a division by *)
(* zero gives (an infinity, or with numerator 0 not a number).  An error   *)
(* is kept as the square root of a whole number times a fraction           *)
(***************************************************************************)
RECURSIVE GCD(_, _)
GCD(a, b) == IF b = 0 THEN a ELSE GCD(b, a % b)

Reduce(q) ==
  IF q[2] = 0 THEN <<IF q[1] = 0 THEN 0 ELSE IF q[1] < 0 THEN -1 ELSE 1, 0>>
  ELSE LET g == GCD(Abs(q[1]), Abs(q[2]))
           sign == IF q[2] < 0 THEN -1 ELSE 1
       IN <<sign * (q[1] \div g), sign * (q[2] \div g)>>

RMul(a, b) == Reduce(<<a[1] * b[1], a[2] * b[2]>>)
RDiv(a, b) == Reduce(<<a[1] * b[2], a[2] * b[1]>>)

\* norm_factor, as a fraction
NormFactors == {<<1, 1>>, <<1, 2>>}

\* crank.cc:219-220: std::sqrt(count)
Sqrt(count) == [root_of |-> count, times |-> <<1, 1>>]

\* crank.cc:440-444: std::max(1., std::sqrt(count)), which for a whole
\* count is the square root of max(1, count)
MaxOneSqrt(count) ==
  [root_of |-> IF count < 1 THEN 1 ELSE count, times |-> <<1, 1>>]

\* a ValueAndError with a count for its value and the given error
Counted(count, error) == [value |-> <<count, 1>>, error |-> error]

\* operator*= that leaves the error as it is
MulAssign_ValueOnly(ve, factor) ==
  [value |-> RMul(ve.value, factor), error |-> ve.error]

\* crank.cc:83-87: operator*=
MulAssign(ve, factor) ==
  [value |-> RMul(ve.value, factor),
   error |-> [root_of |-> ve.error.root_of,
              times |-> RMul(ve.error.times, factor)]]

\* crank.cc:89-93: operator/=
DivAssign(ve, factor) ==
  [value |-> RDiv(ve.value, factor),
   error |-> [root_of |-> ve.error.root_of,
              times |-> RDiv(ve.error.times, factor)]]

(***************************************************************************)
(* ValueAndError on doubles that round.  A double is a fraction whose       *)
(* numerator has at most MantissaBits bits, times a power of two between   *)
(* MinExponent and MaxExponent; every operation rounds its exact result to *)
(* the nearest double, a tie to the even significand (IEEE 754), a result  *)
(* too large to infinity, a result too small to a subnormal or zero.       *)
(* Signed zeros are not told apart.                                        *)
(***************************************************************************)
RECURSIVE Pow2(_)
Pow2(n) == IF n = 0 THEN 1 ELSE 2 * Pow2(n - 1)

\* significand * 2^exponent as a fraction
FloatValue(significand, exponent) ==
  IF exponent >= 0 THEN <<significand * Pow2(exponent), 1>>
  ELSE Reduce(<<significand, Pow2(-exponent)>>)

\* 2^k <= q, for a positive fraction q
LeqPow(q, k) ==
  IF k >= 0 THEN Pow2(k) * q[2] <= q[1] ELSE q[2] <= q[1] * Pow2(-k)

\* the exponent a positive fraction is rounded at
ExponentOf(q) ==
  LET S == {e \in MinExponent..MaxExponent : LeqPow(q, MantissaBits - 1 + e)}
  IN IF S = {} THEN MinExponent
     ELSE CHOOSE e \in S : \A f \in S : f <= e

RoundPositive(q) ==
  LET e == ExponentOf(q)
      N == IF e >= 0 THEN q[1] ELSE q[1] * Pow2(-e)
      D == IF e >= 0 THEN q[2] * Pow2(e) ELSE q[2]
      floor == N \div D
      rest == N % D
      significand ==
        IF 2 * rest > D \/ (2 * rest = D /\ floor % 2 = 1) THEN floor + 1
        ELSE floor
  IN IF e = MaxExponent /\ significand >= Pow2(MantissaBits) THEN <<1, 0>>
     ELSE FloatValue(significand, e)

Negated(q) == <<-q[1], q[2]>>

\* the double nearest to the fraction q
Round(q) ==
  IF q[2] = 0 THEN q
  ELSE IF q[1] = 0 THEN <<0, 1>>
  ELSE IF q[1] < 0 THEN Negated(RoundPositive(Negated(q)))
  ELSE RoundPositive(q)

\* the sum of two fractions; a zero denominator stands for a result that is
\* not a finite number
RAdd(a, b) ==
  IF a[2] = 0 THEN (IF b[2] = 0 /\ b[1] # a[1] THEN <<0, 0>> ELSE a)
  ELSE IF b[2] = 0 THEN b
  ELSE Reduce(<<a[1] * b[2] + b[1] * a[2], a[2] * b[2]>>)

RSub(a, b) == RAdd(a, Negated(b))

FMul(a, b) == Round(RMul(a, b))
FDiv(a, b) == Round(RDiv(a, b))
FAdd(a, b) == Round(RAdd(a, b))
FSub(a, b) == Round(RSub(a, b))

\* significand^2 * 2^k <= q, for a positive fraction q
SquareLeq(significand, k, q) ==
  IF k >= 0 THEN significand * significand * Pow2(k) * q[2] <= q[1]
  ELSE significand * significand * q[2] <= q[1] * Pow2(-k)

\* std::sqrt: the double nearest to the square root
FSqrt(q) ==
  IF q[2] = 0 THEN (IF q[1] = 1 THEN q ELSE <<0, 0>>)
  ELSE IF q[1] < 0 THEN <<0, 0>>
  ELSE IF q[1] = 0 THEN <<0, 1>>
  ELSE LET S == {e \in MinExponent..MaxExponent :
                   LeqPow(q, 2 * (MantissaBits - 1 + e))}
           e == IF S = {} THEN MinExponent
                ELSE CHOOSE x \in S : \A f \in S : f <= x
           below == {s \in 0..(Pow2(MantissaBits) - 1) : SquareLeq(s, 2 * e, q)}
           floor == CHOOSE s \in below : \A t \in below : t <= s
           \* the midpoint (2 floor + 1) * 2^(e - 1) against the root; the
           \* square of a midpoint is no double, so there is no tie
           up == SquareLeq(2 * floor + 1, 2 * e - 2, q)
       IN FloatValue(IF up THEN floor + 1 ELSE floor, e)

\* std::pow(x, 2)
FSquare(x) == FMul(x, x)

\* crank.cc:83-87: operator*=
TimesAssign(this, factor) ==
  [value |-> FMul(this.value, factor), error |-> FMul(this.error, factor)]

\* operator/= that leaves the error as it is
OverAssign_ValueOnly(this, factor) ==
  [value |-> FDiv(this.value, factor), error |-> this.error]

\* crank.cc:89-93: operator/=
OverAssign(this, factor) ==
  [value |-> FDiv(this.value, factor), error |-> FDiv(this.error, factor)]

\* crank.cc:95-98: operator-
Minus(this, other) ==
  [value |-> FSub(this.value, other.value),
   error |-> FSqrt(FAdd(FSquare(this.error), FSquare(other.error)))]

\* crank.cc:100-102: operator*
Product(this, factor) ==
  [value |-> FMul(factor, this.value), error |-> FMul(factor, this.error)]

\* crank.cc:104-106: operator/
Quotient(this, factor) ==
  [value |-> FDiv(this.value, factor), error |-> FDiv(this.error, factor)]

\* the SequenceID column of a heftydb chain of at most n rows, in physical
\* row order
DbChains(n) == UNION {[1..k -> 1..k] : k \in 0..Min(MaxRows, n)}

\* pulse lists of the primary channel (card 4, channel 1)
Ncv1Lists ==
  { <<Pulse(50, 1)>>,
    <<Pulse(50, 1), Pulse(550, 1), Pulse(1100, 1)>> }

\* pulse lists of the paired channel (card 18, channel 0)
Ncv2Lists ==
  { <<>>,
    <<Pulse(55, 1)>>,
    <<Pulse(55, 1), Pulse(555, 1), Pulse(1105, 1)>>,
    <<Pulse(555, 1), Pulse(1105, 1)>> }

\* pulse lists of a water tank channel (card 3, channel 0)
TankLists == { <<Pulse(60, 3)>> }

\* a channel of the readout: absent from pulses(), or present with a list
Absent == [present |-> FALSE, pulses |-> <<>>]
Present(list) == [present |-> TRUE, pulses |-> list]

\* the entries of rr->pulses() for minibuffer m
Slice(m, ncv1, ncv2, tank) ==
  [k \in ({<<4, 1, m>>}
          \cup (IF ncv2.present THEN {<<18, 0, m>>} ELSE {})
          \cup (IF tank.present THEN {<<3, 0, m>>} ELSE {}))
     |-> IF k = <<4, 1, m>> THEN ncv1
         ELSE IF k = <<18, 0, m>> THEN ncv2.pulses ELSE tank.pulses]

NoPulses == [k \in {} |-> <<>>]

\* minibuffers without a pulse on the primary channel
QuietContents(m) == {NoPulses, Slice(m, <<>>, Absent, Absent)}

\* every combination of the lists above
AllContents(m) ==
  QuietContents(m)
  \cup {Slice(m, ncv1, ncv2, tank) :
          ncv1 \in Ncv1Lists,
          ncv2 \in {Present(l) : l \in Ncv2Lists} \cup {Absent},
          tank \in {Present(l) : l \in TankLists} \cup {Absent}}

\* the minibuffers of a run: quiet, or one of
\*  - a pulse with no entry for the paired channel,
\*  - a pulse with tank charge in its window and no entry for the paired
\*    channel,
\*  - three pulses 500 and 550 ns apart, each with a paired pulse 5 ns away,
\*  - the same three pulses, the first without a paired pulse
MinibufferContents(m) ==
  QuietContents(m)
  \cup { Slice(m, <<Pulse(50, 1)>>, Absent, Absent),
         Slice(m, <<Pulse(50, 1)>>, Absent, Present(<<Pulse(60, 3)>>)),
         Slice(m, <<Pulse(50, 1), Pulse(550, 1), Pulse(1100, 1)>>,
               Present(<<Pulse(55, 1), Pulse(555, 1), Pulse(1105, 1)>>),
               Absent),
         Slice(m, <<Pulse(50, 1), Pulse(550, 1), Pulse(1100, 1)>>,
               Present(<<Pulse(555, 1), Pulse(1105, 1)>>), Absent) }

(***************************************************************************)
(* State                                                                   *)
(***************************************************************************)
VARIABLES
  pc,                         \* position in make_hefty_timing_hist
  err,                        \* the exception that ended the call, or "none"
  reco_readout_chains_size,   \* reco_readout_chains.size()
  heftydb_chains_size,        \* heftydb_chains.size()
  c,                          \* chunk index
  heftydb_chain,              \* SequenceID column of heftydb_chains.at(c)
  num_reco_readout_entries,   \* reco_readout_chains.at(c)->GetEntries()
  idx,                        \* index-building loop variable
  sequenceID_to_entry,        \* std::map<int, int>
  it,                         \* number of map entries already visited
  db_SequenceID,
  rr_sequence_id,             \* rr->sequence_id()
  rr_pulses,                  \* rr->pulses(), the entries of minibuffer m
  m,
  db_Label,                   \* db_Label[m]
  db_Time,                    \* db_Time[m]
  p,                          \* index of the pulse in ncv1_pulses
  old_time,
  last_beam_time,
  num_background_minibuffers,
  num_beam_minibuffers,
  raw_signal,
  background,
  pre_beam_background,
  time_hist,
  processed,                  \* log: the rows joined in this chunk, in order
  beam_seen,                  \* log: the last beam minibuffer of this chunk
  accepted,                   \* log: event times filled in this minibuffer
  last,                       \* log: the last pulse examined
  busy,                       \* log: minibuffers with primary pulses so far
  loaded,                     \* log: heftydb rows of the chunks opened so far
  hefty_out,                  \* what make_hefty_timing_hist handed back
  \* a call of approve_event on its own
  ap_args,                    \* the arguments of the call
  ap_result,                  \* what the call returned
  ap_tank,                    \* log: what tank_charge returned in the call
  \* annie::RawCard::RawCard
  card_pc,                    \* position in the constructor
  card_err,                   \* the exception that ended it, or "none"
  Channels,
  BufferSize,
  MiniBufferSize,
  Data,
  Rates,
  trigger_counts_,
  channels_,                  \* std::map<int, annie::RawChannel>
  card_c,                     \* loop variable c of the constructor
  card_call,                  \* log: a member call on the constructed card
  \* annie::RecoReadout
  pulses_,                    \* the three-level map, as a map of full keys
  inserted,                   \* log: the insertions made, in order
  rr_call,                    \* log: the last call of get_pulses
  \* make_nonhefty_timing_hist
  nh_pc,                      \* position in the function
  nh_err,                     \* the exception that ended the call, or "none"
  nh_chains_size,             \* reco_readout_chains.size()
  nh_chain_index,
  nh_num_entries,
  nh_total_entries,
  nh_i,                       \* loop variable i
  nh_pulses,                  \* rr->pulses() of the entry
  nh_p,                       \* index of the pulse in ncv1_pulses
  nh_old_time,
  nh_time_hist,
  nh_raw_signal,              \* raw_signal.value
  nh_background,              \* background.value
  nh_out,                     \* what the call handed back
  nh_last,                    \* log: the last pulse examined
  \* make_timing_distribution
  hefty_mode,
  td_out                      \* what the call returned

chunkVars == <<heftydb_chain, num_reco_readout_entries, idx,
               sequenceID_to_entry, it>>
rowVars == <<db_SequenceID, rr_sequence_id, rr_pulses, m, db_Label, db_Time,
             p, old_time>>
counts == <<time_hist, raw_signal, background, pre_beam_background,
            num_background_minibuffers, num_beam_minibuffers>>
logVars == <<processed, beam_seen, accepted, last, busy, loaded>>
heftyVars == <<pc, err, reco_readout_chains_size, heftydb_chains_size, c,
               chunkVars, rowVars, last_beam_time, counts, logVars,
               hefty_out>>

approveVars == <<ap_args, ap_result, ap_tank>>
cardVars == <<card_pc, card_err, Channels, BufferSize, MiniBufferSize, Data,
              Rates, trigger_counts_, channels_, card_c, card_call>>

readoutVars == <<pulses_, inserted, rr_call>>

nonHeftyVars == <<nh_pc, nh_err, nh_chains_size, nh_chain_index, nh_num_entries,
                  nh_total_entries, nh_i, nh_pulses, nh_p, nh_old_time,
                  nh_time_hist, nh_raw_signal, nh_background, nh_out, nh_last>>

timingVars == <<hefty_mode, td_out>>

VARIABLES
  ve_this,     \* the ValueAndError the operators are called on
  ve_other,    \* the right-hand side of operator-
  ve_temp,     \* the ValueAndError the last operator returned by value
  ve_hist      \* the operator calls so far

arithVars == <<ve_this, ve_other, ve_temp, ve_hist>>

VARIABLES
  pmt_data_chain_,     \* the SequenceID of every PMTData entry, in chain order
  rd_bad,              \* the entry (from 1) with a negative array size, or 0
  current_entry_,      \* RawReader::current_entry_
  last_sequence_id_,   \* RawReader::last_sequence_id_
  rd_hist              \* the next() and previous() calls so far

readerVars == <<pmt_data_chain_, rd_bad, current_entry_, last_sequence_id_,
                rd_hist>>

VARIABLES
  pot_pc,               \* position in readout_pot
  beam_index,           \* the (start_ms, end_ms) of entries 0, 1, ...
  readouts_left,        \* readouts the reader has yet to return
  num_minibuffers,      \* minibuffers of the current readout
  pot_mb,                   \* minibuffer index in the current readout
  minibuffers_begun,    \* minibuffers whose search has begun, in all
  ms_since_epoch,
  beam_entry,
  need_new_beam_data,
  looped_once,
  found_ok,
  old_beam_entry,
  examined,             \* the index entries looked up for this minibuffer
  out_tree              \* the number of records filled and the last one

potVars == <<pot_pc, beam_index, readouts_left, num_minibuffers, pot_mb,
             minibuffers_begun, ms_since_epoch, beam_entry,
             need_new_beam_data, looped_once, found_ok, old_beam_entry,
             examined, out_tree>>

besidesHefty ==
  <<approveVars, cardVars, readoutVars, nonHeftyVars, timingVars, arithVars,
    readerVars, potVars>>
besidesApprove ==
  <<heftyVars, cardVars, readoutVars, nonHeftyVars, timingVars, arithVars,
    readerVars, potVars>>
besidesCard ==
  <<heftyVars, approveVars, readoutVars, nonHeftyVars, timingVars, arithVars,
    readerVars, potVars>>
besidesReadout ==
  <<heftyVars, approveVars, cardVars, nonHeftyVars, timingVars, arithVars,
    readerVars, potVars>>
besidesNonHefty ==
  <<heftyVars, approveVars, cardVars, readoutVars, timingVars, arithVars,
    readerVars, potVars>>
besidesTiming ==
  <<heftyVars, approveVars, cardVars, readoutVars, nonHeftyVars, arithVars,
    readerVars, potVars>>
besidesArith ==
  <<heftyVars, approveVars, cardVars, readoutVars, nonHeftyVars, timingVars,
    readerVars, potVars>>
besidesReader ==
  <<heftyVars, approveVars, cardVars, readoutVars, nonHeftyVars, timingVars,
    arithVars, potVars>>
besidesPot ==
  <<heftyVars, approveVars, cardVars, readoutVars, nonHeftyVars, timingVars,
    arithVars, readerVars>>

NoBeam == [seen |-> FALSE, time |-> 0]
NoLast == [outcome |-> "none"]

HeftyInit ==
  /\ pc = "start"
  /\ err = "none"
  /\ reco_readout_chains_size \in 0..MaxChunks
  /\ heftydb_chains_size \in 0..MaxChunks
  /\ c = 0
  /\ heftydb_chain = <<>>
  /\ num_reco_readout_entries = 0
  /\ idx = 0
  /\ sequenceID_to_entry = <<>>
  /\ it = 0
  /\ db_SequenceID = 0
  /\ rr_sequence_id = 0
  /\ rr_pulses = NoPulses
  /\ m = 0
  /\ db_Label = 0
  /\ db_Time = 0
  /\ p = 0
  /\ old_time = LOWEST
  /\ last_beam_time = 0
  /\ num_background_minibuffers = 0
  /\ num_beam_minibuffers = 0
  /\ raw_signal = 0
  /\ background = 0
  /\ pre_beam_background = 0
  /\ time_hist = EmptyHist
  /\ processed = <<>>
  /\ beam_seen = NoBeam
  /\ accepted = <<>>
  /\ last = NoLast
  /\ busy = 0
  /\ loaded = 0
  /\ hefty_out = [called |-> FALSE]

Throw(e) == pc' = "error" /\ err' = e

(***************************************************************************)
(* make_hefty_timing_hist, crank.cc:250-473                                *)
(***************************************************************************)
\* SizesMatch that lets a longer second stream through
SizesMatch_AtMost(a, b) == a <= b

\* crank.cc:256, 302: the size comparisons
SizesMatch(a, b) == a = b

\* IndexCount that never finds the key
IndexCount_Zero(index, id) == 0

\* crank.cc:314: sequenceID_to_entry.count(db_SequenceID)
IndexCount(index, id) == IF id \in DOMAIN index THEN 1 ELSE 0

\* crank.cc:318: sequenceID_to_entry[db_SequenceID] = idx
IndexPut(index, id, entry) ==
  [k \in DOMAIN index \cup {id} |-> IF k = id THEN entry ELSE index[k]]

\* SequenceIDMismatch that never reports a mismatch
SequenceIDMismatch_Never(db_id, rr_id) == FALSE

\* crank.cc:335: db_SequenceID != rr->sequence_id()
SequenceIDMismatch(db_id, rr_id) == db_id # rr_id

\* crank.cc:256-280: the sizes of the two vectors are compared, then the
\* results are cleared and the histogram and the counters are set up
CheckChainSizes ==
  /\ pc = "start"
  /\ IF ~SizesMatch(reco_readout_chains_size, heftydb_chains_size)
       THEN /\ Throw("StreamLengthMismatch")
            /\ UNCHANGED counts
       ELSE /\ pc' = "chunk" /\ err' = err
            /\ raw_signal' = 0
            /\ background' = 0
            /\ pre_beam_background' = 0
            /\ time_hist' = EmptyHist
            /\ num_background_minibuffers' = 0
            /\ num_beam_minibuffers' = 0
  /\ UNCHANGED <<reco_readout_chains_size, heftydb_chains_size, c, chunkVars,
                 rowVars, last_beam_time, logVars>>
  /\ UNCHANGED <<hefty_out, besidesHefty>>

\* crank.cc:282-305: the chains of chunk c are opened and their entry
\* numbers compared
OpenChunk ==
  /\ pc = "chunk"
  /\ c < heftydb_chains_size
  /\ \E chain \in DbChains(MaxReadouts - loaded), n \in 0..MaxRows :
       /\ heftydb_chain' = chain
       /\ loaded' = loaded + Len(chain)
       /\ num_reco_readout_entries' = n
       /\ IF ~SizesMatch(Len(chain), n)
            THEN Throw("StreamLengthMismatch")
            ELSE pc' = "index" /\ err' = err
  /\ idx' = 0
  /\ sequenceID_to_entry' = <<>>
  /\ it' = 0
  /\ processed' = <<>>
  /\ UNCHANGED <<reco_readout_chains_size, heftydb_chains_size, c, rowVars,
                 last_beam_time, counts, beam_seen, accepted, last, busy>>
  /\ UNCHANGED <<hefty_out, besidesHefty>>

\* crank.cc:310-319: one turn of the index-building loop
BuildIndex ==
  /\ pc = "index"
  /\ idx < Len(heftydb_chain)
  /\ db_SequenceID' = heftydb_chain[idx + 1]
  /\ IF IndexCount(sequenceID_to_entry, db_SequenceID') # 0
       THEN /\ Throw("DuplicateSequenceID")
            /\ UNCHANGED <<sequenceID_to_entry, idx>>
       ELSE /\ sequenceID_to_entry' =
                 IndexPut(sequenceID_to_entry, db_SequenceID', idx)
            /\ idx' = idx + 1
            /\ pc' = pc /\ err' = err
  /\ UNCHANGED <<reco_readout_chains_size, heftydb_chains_size, c,
                 heftydb_chain, num_reco_readout_entries, it,
                 rr_sequence_id, rr_pulses, m, db_Label, db_Time, p, old_time,
                 last_beam_time, counts, logVars>>
  /\ UNCHANGED <<hefty_out, besidesHefty>>

\* crank.cc:320-326: the index is complete, the run over the chunk starts.
\* On an empty map crbegin() is dereferenced: undefined behaviour, the call
\* either dies there or goes on (last_sequence_id is only printed)
StartLoop ==
  /\ pc = "index"
  /\ idx = Len(heftydb_chain)
  /\ \E dies \in (IF sequenceID_to_entry = <<>> THEN BOOLEAN ELSE {FALSE}) :
       IF dies
         THEN /\ Throw("UndefinedBehaviour")
              /\ UNCHANGED <<last_beam_time, beam_seen, it, accepted, last>>
         ELSE /\ last_beam_time' = 0
              /\ beam_seen' = NoBeam
              /\ accepted' = <<>>
              /\ last' = NoLast
              /\ it' = 0
              /\ pc' = "row"
              /\ err' = err
  /\ UNCHANGED <<reco_readout_chains_size, heftydb_chains_size, c,
                 heftydb_chain, num_reco_readout_entries, idx,
                 sequenceID_to_entry, rowVars, counts, processed, busy,
                 loaded>>
  /\ UNCHANGED <<hefty_out, besidesHefty>>

\* BeamTimeAtReadout that forgets the beam time at every readout
BeamTimeAtReadout_Reset(beam_time) == 0

\* crank.cc:322-326: last_beam_time is declared and zeroed outside the loop
\* over the rows; the top of that loop leaves it as it is
BeamTimeAtReadout(beam_time) == beam_time

\* crank.cc:326-338: the next entry of the map in key order is loaded
\* from both chains and the two SequenceIDs are compared
LoadRow ==
  /\ pc = "row"
  /\ it < Cardinality(DOMAIN sequenceID_to_entry)
  /\ LET key == KthKey(DOMAIN sequenceID_to_entry, it)
         chain_index == sequenceID_to_entry[key]
     IN /\ db_SequenceID' = heftydb_chain[chain_index + 1]
        /\ \E rid \in SequenceIDs : rr_sequence_id' = rid
        /\ IF SequenceIDMismatch(db_SequenceID', rr_sequence_id')
             THEN Throw("SequenceIDMismatch") /\ processed' = processed
             ELSE /\ pc' = "minibuffer" /\ err' = err
                  /\ processed' = Append(processed,
                       [entry |-> chain_index, id |-> db_SequenceID',
                        chunk |-> c])
  /\ m' = 0
  /\ last_beam_time' = BeamTimeAtReadout(last_beam_time)
  /\ UNCHANGED <<reco_readout_chains_size, heftydb_chains_size, c, chunkVars,
                 rr_pulses, db_Label, db_Time, p, old_time,
                 counts, beam_seen, accepted, last, busy, loaded>>
  /\ UNCHANGED <<hefty_out, besidesHefty>>

\* NewBeamTime that takes a self-trigger minibuffer for a reference too
NewBeamTime_SelfTrigger(label, time, beam_time) ==
  IF ~is_background_minibuffer(label)
       /\ (label = BEAM_MINIBUFFER_LABEL \/ label = NCV_MINIBUFFER_LABEL)
    THEN time ELSE beam_time

\* crank.cc:342-349: the beam time after the label of minibuffer m is read
NewBeamTime(label, time, beam_time) ==
  IF ~is_background_minibuffer(label) /\ label = BEAM_MINIBUFFER_LABEL
    THEN time ELSE beam_time

\* crank.cc:347, 386-396: db_Time[m] is read in a beam minibuffer and for
\* the pulses of a minibuffer that is not a source one, and nowhere else
TimeRead(label, pulses, mb) ==
  \/ label = BEAM_MINIBUFFER_LABEL
  \/ /\ label # SOURCE_MINIBUFFER_LABEL
     /\ HasKey(pulses, 4, 1, mb)
     /\ get_pulses(pulses, 4, 1, mb) # <<>>

\* crank.cc:340-379: minibuffer m is entered; db_Label[m], the entries of
\* rr->pulses() for m and, where it is read, db_Time[m] come to be known
StartMinibuffer ==
  /\ pc = "minibuffer"
  /\ m < NUM_HEFTY_MINIBUFFERS
  /\ \E label \in Labels,
        pulses \in (IF busy < MaxBusy THEN MinibufferContents(m)
                    ELSE QuietContents(m)) :
       /\ db_Label' = label
       /\ rr_pulses' = pulses
       /\ \E time \in (IF TimeRead(label, pulses, m) THEN Times ELSE {0}) :
            db_Time' = time
  /\ num_background_minibuffers' =
       IF is_background_minibuffer(db_Label')
         THEN num_background_minibuffers + 1 ELSE num_background_minibuffers
  /\ num_beam_minibuffers' =
       IF ~is_background_minibuffer(db_Label')
            /\ db_Label' = BEAM_MINIBUFFER_LABEL
         THEN num_beam_minibuffers + 1 ELSE num_beam_minibuffers
  /\ last_beam_time' = NewBeamTime(db_Label', db_Time', last_beam_time)
  /\ beam_seen' = IF db_Label' = BEAM_MINIBUFFER_LABEL
                    THEN [seen |-> TRUE, time |-> db_Time'] ELSE beam_seen
  /\ IF ~HasKey(rr_pulses', 4, 1, m)
       THEN Throw("MissingKey") /\ UNCHANGED <<m, p, old_time>>
       ELSE IF get_pulses(rr_pulses', 4, 1, m) = <<>>
         THEN /\ m' = m + 1
              /\ UNCHANGED <<pc, err, p, old_time>>
         ELSE /\ old_time' = LOWEST
              /\ p' = 0
              /\ pc' = "pulse"
              /\ UNCHANGED <<err, m>>
  /\ accepted' = <<>>
  /\ last' = NoLast
  /\ busy' = IF HasKey(rr_pulses', 4, 1, m)
                 /\ get_pulses(rr_pulses', 4, 1, m) # <<>>
               THEN busy + 1 ELSE busy
  /\ UNCHANGED <<reco_readout_chains_size, heftydb_chains_size, c, chunkVars,
                 db_SequenceID, rr_sequence_id, time_hist, raw_signal,
                 background, pre_beam_background, processed, loaded>>
  /\ UNCHANGED <<hefty_out, besidesHefty>>

\* unsigned long long subtraction
USub(a, b) == (a - b + TimeModulus) % TimeModulus

\* crank.cc:381-397: the event time of a pulse of minibuffer m
EventTime(start_time, label, time, beam_time) ==
  IF label # SOURCE_MINIBUFFER_LABEL
    THEN start_time + USub(time, beam_time)
    ELSE start_time

\* InvalidTimestamp with the label test inverted
InvalidTimestamp_SourceOnly(label, time, beam_time) ==
  label = SOURCE_MINIBUFFER_LABEL /\ time < beam_time

\* crank.cc:391: the timestamp check
InvalidTimestamp(label, time, beam_time) ==
  label # SOURCE_MINIBUFFER_LABEL /\ time < beam_time

\* KnownBeamTime that trusts every event time
KnownBeamTime_Always(beam_time) == TRUE

\* crank.cc:403: is the event time trusted
KnownBeamTime(beam_time) == beam_time # 0

Examined(outcome, pulse, event_time, cuts) ==
  [outcome |-> outcome, id |-> db_SequenceID, rr_id |-> rr_sequence_id,
   m |-> m, start_time |-> pulse.start_time, label |-> db_Label,
   time |-> db_Time, beam_time |-> last_beam_time, old_time |-> old_time,
   event_time |-> event_time, cuts |-> cuts, pulses |-> rr_pulses]

\* crank.cc:380-432: one turn of the loop over ncv1_pulses
ProcessPulse ==
  /\ pc = "pulse"
  /\ LET ncv1_pulses == get_pulses(rr_pulses, 4, 1, m)
         pulse == ncv1_pulses[p + 1]
         event_time == EventTime(pulse.start_time, db_Label, db_Time,
                                 last_beam_time)
         v == approve_event(event_time, old_time, pulse, rr_pulses, m)
         filled == v.value /\ KnownBeamTime(last_beam_time)
     IN IF InvalidTimestamp(db_Label, db_Time, last_beam_time)
          THEN /\ Throw("InvalidTimestamp")
               /\ last' = Examined("InvalidTimestamp", pulse, event_time,
                                   <<>>)
               /\ UNCHANGED <<m, p, old_time, counts, accepted>>
        ELSE IF v.threw
          THEN /\ Throw("MissingKey")
               /\ last' = Examined("MissingKey", pulse, event_time, v.cuts)
               /\ UNCHANGED <<m, p, old_time, counts, accepted>>
        ELSE
          /\ time_hist' = IF filled THEN Fill(time_hist, event_time)
                          ELSE time_hist
          /\ old_time' = IF filled THEN event_time ELSE old_time
          /\ raw_signal' =
               IF filled /\ event_time >= HEFTY_SIGNAL_START_TIME
                         /\ event_time < HEFTY_SIGNAL_END_TIME
                 THEN raw_signal + 1 ELSE raw_signal
          /\ background' =
               IF filled /\ is_background_minibuffer(db_Label)
                 THEN background + 1 ELSE background
          /\ pre_beam_background' =
               IF v.value /\ db_Label = BEAM_MINIBUFFER_LABEL
                    /\ pulse.start_time >= HEFTY_BACKGROUND_START_TIME
                    /\ pulse.start_time < HEFTY_BACKGROUND_END_TIME
                 THEN pre_beam_background + 1 ELSE pre_beam_background
          /\ accepted' = IF filled THEN Append(accepted, event_time)
                         ELSE accepted
          /\ last' = Examined(IF filled THEN "accepted"
                              ELSE IF v.value THEN "unknown"
                              ELSE "rejected", pulse, event_time, v.cuts)
          /\ IF p + 1 = Len(ncv1_pulses)
               THEN m' = m + 1 /\ pc' = "minibuffer" /\ p' = p
               ELSE p' = p + 1 /\ pc' = pc /\ m' = m
          /\ err' = err
          /\ UNCHANGED <<num_background_minibuffers, num_beam_minibuffers>>
  /\ UNCHANGED <<reco_readout_chains_size, heftydb_chains_size, c, chunkVars,
                 db_SequenceID, rr_sequence_id, rr_pulses, db_Label, db_Time,
                 last_beam_time, processed, beam_seen, busy, loaded>>
  /\ UNCHANGED <<hefty_out, besidesHefty>>

\* crank.cc:340, 326: the loop over the minibuffers of the readout ends.
\* The locals of the loop body are gone and the buffers of the row are not
\* read again
EndReadout ==
  /\ pc = "minibuffer"
  /\ m = NUM_HEFTY_MINIBUFFERS
  /\ it' = it + 1
  /\ pc' = "row"
  /\ rr_pulses' = NoPulses
  /\ db_Label' = 0
  /\ db_Time' = 0
  /\ p' = 0
  /\ old_time' = LOWEST
  /\ accepted' = <<>>
  /\ last' = NoLast
  /\ UNCHANGED <<err, reco_readout_chains_size, heftydb_chains_size, c,
                 heftydb_chain, num_reco_readout_entries, idx,
                 sequenceID_to_entry, db_SequenceID, rr_sequence_id, m,
                 last_beam_time, counts, processed, beam_seen, busy, loaded>>
  /\ UNCHANGED <<hefty_out, besidesHefty>>

\* crank.cc:326, 282: the loop over the map ends, the next chunk is due
EndChunk ==
  /\ pc = "row"
  /\ it = Cardinality(DOMAIN sequenceID_to_entry)
  /\ c' = c + 1
  /\ pc' = "chunk"
  /\ UNCHANGED <<err, reco_readout_chains_size, heftydb_chains_size,
                 chunkVars, rowVars, last_beam_time, counts, logVars>>
  /\ UNCHANGED <<hefty_out, besidesHefty>>

\* crank.cc:282, 437-472: the loop over the chunks ends
Finish ==
  /\ pc = "chunk"
  /\ c = heftydb_chains_size
  /\ \E norm_factor \in NormFactors :
       LET background_factor ==
             <<(HEFTY_SIGNAL_END_TIME - HEFTY_SIGNAL_START_TIME)
                 * num_beam_minibuffers, 1>>
       IN hefty_out' =
            [called |-> TRUE,
             background |->
               MulAssign(
                 DivAssign(Counted(background, MaxOneSqrt(background)),
                           <<HEFTY_MINIBUFFER_TIME
                               * num_background_minibuffers, 1>>),
                 RMul(background_factor, norm_factor)),
             raw_signal |->
               MulAssign(Counted(raw_signal, MaxOneSqrt(raw_signal)),
                         norm_factor),
             pre_beam_background |->
               Counted(pre_beam_background,
                       MaxOneSqrt(pre_beam_background)),
             time_hist |-> [counts |-> time_hist, factor |-> norm_factor]]
  /\ pc' = "done"
  /\ UNCHANGED <<err, reco_readout_chains_size, heftydb_chains_size, c,
                 chunkVars, rowVars, last_beam_time, counts, logVars>>
  /\ UNCHANGED besidesHefty

(***************************************************************************)
(* annie::RawCard and annie::RawChannel                                    *)
(***************************************************************************)
\* unsigned short stored in a std::vector<short>
ToShort(v) == IF v >= 32768 THEN v - 65536 ELSE v

\* RawChannel::RawChannel: data_(data_begin, data_end); the iterators are
\* offsets into the flat buffer
RawChannel(ChannelNumber, buffer, data_begin, data_end, Rate, MiniBufferCount) ==
  [channel_number |-> ChannelNumber,
   rate |-> Rate,
   data |-> [i \in 1..(data_end - data_begin) |->
               ToShort(buffer[data_begin + i])],
   num_minibuffers |-> MiniBufferCount]

\* short read back as unsigned short
ToUShort(v) == IF v < 0 THEN v + 65536 ELSE v

\* minibuffer_data that returns the first window for every index
minibuffer_data_FirstWindow(channel, mb_index) ==
  IF mb_index >= channel.num_minibuffers
    THEN [threw |-> "OutOfRange", data |-> <<>>]
    ELSE LET mb_size == Len(channel.data) \div channel.num_minibuffers
         IN [threw |-> "none",
             data |-> [k \in 1..mb_size |->
                         ToUShort(channel.data[k])]]

\* RawChannel::minibuffer_data: the exception thrown ("none" if none) and
\* the vector returned
minibuffer_data(channel, mb_index) ==
  IF mb_index >= channel.num_minibuffers
    THEN [threw |-> "OutOfRange", data |-> <<>>]
    ELSE LET mb_size == Len(channel.data) \div channel.num_minibuffers
             start_index == mb_size * mb_index
             end_index == mb_size * (mb_index + 1)
         IN [threw |-> "none",
             data |-> [k \in 1..(end_index - start_index) |->
                         ToUShort(channel.data[start_index + k])]]

MapErase(map, key) == [k \in DOMAIN map \ {key} |-> map[k]]

MapEmplace(map, key, value) ==
  [k \in DOMAIN map \cup {key} |->
     IF k \in DOMAIN map THEN map[k] ELSE value]

\* RawCard::add_channel: the exception thrown ("none" if none) and the
\* channels_ map the call leaves behind
add_channel(channels, channel_number, full_buffer_data, channel_buffer_size, rate, num_trigger_counts, overwrite_ok) ==
  LET found == channel_number \in DOMAIN channels
      kept == IF found /\ overwrite_ok
                THEN MapErase(channels, channel_number) ELSE channels
      start_index == channel_number * channel_buffer_size
      end_index == (channel_number + 1) * channel_buffer_size
      channel_begin == start_index
      channel_halfway == channel_begin + (channel_buffer_size \div 2)
  IN IF found /\ ~overwrite_ok
       THEN [threw |-> "DuplicateChannel", channels |-> channels]
     ELSE IF Len(full_buffer_data) < end_index
       THEN [threw |-> "MissingData", channels |-> kept]
     ELSE [threw |-> "none",
           channels |-> MapEmplace(kept, channel_number,
              RawChannel(channel_number, full_buffer_data, channel_begin,
                         channel_halfway, rate, num_trigger_counts))]

\* flat buffers: consecutive sample values from a base, so that every
\* sample of a buffer is told apart from the others
Buffer(base, n) == [i \in 1..n |-> base + i - 1]

SampleBases == {0, 32766}

CardIdle ==
  /\ card_pc = "idle"
  /\ card_err = "none"
  /\ Channels = 0
  /\ BufferSize = 0
  /\ MiniBufferSize = 0
  /\ Data = <<>>
  /\ Rates = <<>>
  /\ trigger_counts_ = <<>>
  /\ channels_ = <<>>
  /\ card_c = 0
  /\ card_call = [called |-> FALSE]

\* the arguments of the constructor; trigger_counts_ is set by the
\* member initializer list
CardInit ==
  /\ card_pc = "start"
  /\ card_err = "none"
  /\ Channels \in 1..MaxChannels
  /\ BufferSize \in 1..MaxBufferSize
  /\ MiniBufferSize \in 1..MaxBufferSize
  /\ \E base \in SampleBases, d \in {-1, 0, 1} :
       Data = Buffer(base, Channels * BufferSize + d)
  /\ \E n \in {Channels - 1, Channels} : Rates = [i \in 1..n |-> 100 + i]
  /\ \E n \in 1..MaxTriggers : trigger_counts_ = [i \in 1..n |-> i]
  /\ channels_ = <<>>
  /\ card_c = 0
  /\ card_call = [called |-> FALSE]

\* RawCard.cc:14-23: the two size checks of the constructor
CheckCard ==
  /\ card_pc = "start"
  /\ IF Channels # Len(Data) \div BufferSize
       THEN card_pc' = "error" /\ card_err' = "MalformedBuffer"
     ELSE IF Len(trigger_counts_) # BufferSize \div MiniBufferSize
       THEN card_pc' = "error" /\ card_err' = "MalformedBuffer"
     ELSE card_pc' = "channels" /\ card_err' = card_err
  /\ UNCHANGED <<Channels, BufferSize, MiniBufferSize, Data, Rates,
                 trigger_counts_, channels_, card_c, card_call>>
  /\ UNCHANGED besidesCard

\* RawCard.cc:25-26: one turn of the loop over the channels
AddChannel ==
  /\ card_pc = "channels"
  /\ card_c < Channels
  /\ IF card_c >= Len(Rates)
       THEN /\ card_pc' = "error" /\ card_err' = "OutOfRange"
            /\ UNCHANGED <<channels_, card_c>>
       ELSE LET r == add_channel(channels_, card_c, Data, BufferSize,
                                 Rates[card_c + 1], Len(trigger_counts_),
                                 FALSE)
            IN /\ channels_' = r.channels
               /\ IF r.threw # "none"
                    THEN /\ card_pc' = "error" /\ card_err' = r.threw
                         /\ card_c' = card_c
                    ELSE /\ card_c' = card_c + 1
                         /\ card_pc' = IF card_c + 1 = Channels
                                         THEN "done" ELSE "channels"
                         /\ card_err' = card_err
  /\ UNCHANGED <<Channels, BufferSize, MiniBufferSize, Data, Rates,
                 trigger_counts_, card_call>>
  /\ UNCHANGED besidesCard

\* RawChannel.cc:15-31: a call of minibuffer_data on a channel of the
\* constructed card
MinibufferDataCall ==
  /\ card_pc = "done"
  /\ \E ch \in DOMAIN channels_, mb_index \in 0..(MaxTriggers + 1) :
       LET r == minibuffer_data(channels_[ch], mb_index)
       IN /\ card_err' = r.threw
          /\ card_call' = [called |-> TRUE, op |-> "minibuffer_data",
                           channel |-> channels_[ch],
                           mb_index |-> mb_index,
                           data |-> r.data]
  /\ card_pc' = "called"
  /\ UNCHANGED <<Channels, BufferSize, MiniBufferSize, Data, Rates,
                 trigger_counts_, channels_, card_c>>
  /\ UNCHANGED besidesCard

\* the buffers handed to add_channel after the construction: the buffer of
\* the constructor, a buffer of the same length with other samples, and a
\* buffer too short for any channel
CallBuffers == {Data, Buffer(1000, Len(Data)), <<>>}

\* RawCard.cc:30-57: a call of the public add_channel on the constructed
\* card
AddChannelCall ==
  /\ card_pc = "done"
  /\ \E channel_number \in 0..Channels, buffer \in CallBuffers,
        overwrite_ok \in BOOLEAN :
       LET r == add_channel(channels_, channel_number, buffer, BufferSize,
                            7, Len(trigger_counts_), overwrite_ok)
       IN /\ channels_' = r.channels
          /\ card_err' = r.threw
          /\ card_call' = [called |-> TRUE, op |-> "add_channel",
                           channel_number |-> channel_number,
                           buffer |-> buffer,
                           overwrite_ok |-> overwrite_ok,
                           before |-> channels_]
  /\ card_pc' = "called"
  /\ UNCHANGED <<Channels, BufferSize, MiniBufferSize, Data, Rates,
                 trigger_counts_, card_c>>
  /\ UNCHANGED besidesCard

(***************************************************************************)
(* approve_event called on its own                                         *)
(***************************************************************************)
NoCall == [called |-> FALSE]

ApproveIdle == ap_args = NoCall /\ ap_result = NoCall /\ ap_tank = NoCall

HeftyIdle ==
  /\ pc = "idle"
  /\ err = "none"
  /\ reco_readout_chains_size = 0
  /\ heftydb_chains_size = 0
  /\ c = 0
  /\ heftydb_chain = <<>>
  /\ num_reco_readout_entries = 0
  /\ idx = 0
  /\ sequenceID_to_entry = <<>>
  /\ it = 0
  /\ db_SequenceID = 0
  /\ rr_sequence_id = 0
  /\ rr_pulses = NoPulses
  /\ m = 0
  /\ db_Label = 0
  /\ db_Time = 0
  /\ p = 0
  /\ old_time = LOWEST
  /\ last_beam_time = 0
  /\ num_background_minibuffers = 0
  /\ num_beam_minibuffers = 0
  /\ raw_signal = 0
  /\ background = 0
  /\ pre_beam_background = 0
  /\ time_hist = EmptyHist
  /\ processed = <<>>
  /\ beam_seen = NoBeam
  /\ accepted = <<>>
  /\ last = NoLast
  /\ busy = 0
  /\ loaded = 0
  /\ hefty_out = [called |-> FALSE]

\* event times and previous event times handed to approve_event
ApEventTimes == {50, 550, 1100, 2100}
ApOldTimes == {LOWEST, 50, 1100}
ApPulses == {Pulse(50, 1), Pulse(550, 1), Pulse(1100, 1)}

\* the i-th water tank channel of a crowd, i from 0: four channels on each
\* of the cards 3, 5, 6, 9, 10, ...
CrowdCards == <<3, 5, 6, 9, 10, 11>>
CrowdChannel(i) == <<CrowdCards[(i \div 4) + 1], i % 4>>

\* what every channel of a crowd holds: a pulse without charge at the start
\* of the window of a pulse at 50, a pulse inside it, two pulses inside it,
\* a pulse at its last nanosecond and one at its end, a pulse before it
CrowdLists ==
  { <<Pulse(50, 0)>>,
    <<Pulse(60, 1)>>,
    <<Pulse(50, 1), Pulse(60, 1)>>,
    <<Pulse(89, 1), Pulse(90, 1)>>,
    <<Pulse(49, 1)>> }

\* channels beside the crowd: none, the two trigger inputs of the exclusion
\* list, or a channel of card 1, which is not a water tank card
NoBystanders == [k \in {} |-> <<>>]
Bystanders(mb) ==
  { NoBystanders,
    [k \in {<<8, 2, mb>>, <<14, 0, mb>>} |-> <<Pulse(60, 3)>>],
    [k \in {<<1, 0, mb>>} |-> <<Pulse(60, 3)>>] }

\* a minibuffer with a pulse on both NCV channels, n water tank channels
\* that each hold list, and the bystanders
Crowd(mb, n, list, others) ==
  [k \in {<<4, 1, mb>>, <<18, 0, mb>>}
          \cup {<<CrowdChannel(i)[1], CrowdChannel(i)[2], mb>> : i \in 0..(n - 1)}
          \cup DOMAIN others |->
     IF k = <<4, 1, mb>> THEN <<Pulse(50, 1)>>
     ELSE IF k = <<18, 0, mb>> THEN <<Pulse(55, 1)>>
     ELSE IF k \in DOMAIN others THEN others[k]
     ELSE list]

\* a pulse at 50 on the primary channel and one paired pulse 40 or 39 ns
\* before it, or 39 or 40 ns after it
CoincidenceContents(mb) ==
  {Slice(mb, <<Pulse(50, 1)>>, Present(<<Pulse(t, 1)>>), Absent) :
     t \in {10, 11, 89, 90}}

CrowdedContents(mb) ==
  {Crowd(mb, n, list, others) :
     n \in 0..MaxTankChannels, list \in CrowdLists, others \in Bystanders(mb)}

\* crank.cc:135-162: one call of approve_event; the function keeps no
\* state, so a further call has the outcomes of the first
ApproveCall ==
  /\ ~ap_args.called
  /\ \E event_time \in ApEventTimes, old \in ApOldTimes, pulse \in ApPulses,
        pulses \in AllContents(0) \cup CrowdedContents(0)
                     \cup CoincidenceContents(0) :
       /\ ap_args' = [called |-> TRUE, event_time |-> event_time,
                      old_time |-> old, pulse |-> pulse, pulses |-> pulses,
                      m |-> 0]
       /\ ap_result' = approve_event(event_time, old, pulse, pulses, 0)
       /\ ap_tank' =
            IF DeadTimeVeto(event_time, old) THEN NoCall
            ELSE LET tc == tank_charge(pulses, 0, pulse.start_time,
                             pulse.start_time + TANK_CHARGE_WINDOW_LENGTH)
                 IN [called |-> TRUE, threw |-> tc.threw,
                     charge |-> tc.charge, num_unique |-> tc.num_unique]
  /\ UNCHANGED besidesApprove

(***************************************************************************)
(* RecoReadout.cc: insertion and lookup                                    *)
(***************************************************************************)
\* a RecoReadout after its constructor
ReadoutIdle ==
  /\ pulses_ = NoPulses
  /\ inserted = <<>>
  /\ rr_call = NoCall

\* add_pulses that stores the batch in place of the pulses already held
add_pulses_Overwrite(pulses, card_number, channel_number, minibuffer_number, batch) ==
  [k \in DOMAIN pulses \cup {<<card_number, channel_number, minibuffer_number>>} |->
     IF k = <<card_number, channel_number, minibuffer_number>>
       THEN batch ELSE pulses[k]]

\* RecoReadout::add_pulses: the batch is emplaced under a new key and
\* pushed back pulse by pulse under a key already held
add_pulses(pulses, card_number, channel_number, minibuffer_number, batch) ==
  LET key == <<card_number, channel_number, minibuffer_number>>
  IN IF ~HasKey(pulses, card_number, channel_number, minibuffer_number)
       THEN MapEmplace(pulses, key, batch)
       ELSE [pulses EXCEPT ![key] = @ \o batch]

\* RecoReadout::add_pulse: an empty vector is emplaced under a new key,
\* then the pulse is pushed back
add_pulse(pulses, card_number, channel_number, minibuffer_number, pulse) ==
  LET key == <<card_number, channel_number, minibuffer_number>>
      with_key == IF ~HasKey(pulses, card_number, channel_number,
                             minibuffer_number)
                    THEN MapEmplace(pulses, key, <<>>) ELSE pulses
  IN [with_key EXCEPT ![key] = Append(@, pulse)]

\* a lookup that answers a missing key with an empty vector
at_Default(pulses, card_number, channel_number, minibuffer_number) ==
  IF HasKey(pulses, card_number, channel_number, minibuffer_number)
    THEN [threw |-> "none",
          value |-> get_pulses(pulses, card_number, channel_number,
                               minibuffer_number)]
    ELSE [threw |-> "none", value |-> <<>>]

\* pulses_.at(card).at(channel).at(minibuffer): std::out_of_range
\* (MissingKey) at the first level that does not hold its key
at(pulses, card_number, channel_number, minibuffer_number) ==
  IF HasKey(pulses, card_number, channel_number, minibuffer_number)
    THEN [threw |-> "none",
          value |-> get_pulses(pulses, card_number, channel_number,
                               minibuffer_number)]
    ELSE [threw |-> "MissingKey", value |-> <<>>]

\* the keys insertions are made under: two minibuffers of one channel and a
\* channel of another card
InsertKeys == {<<4, 1, 0>>, <<4, 1, 1>>, <<18, 0, 0>>}

\* the keys looked up: also a channel that card 4 never holds and a card
\* that is never held
LookupKeys == InsertKeys \cup {<<4, 0, 0>>, <<5, 1, 0>>}

InsertPulses == {Pulse(55, 1), Pulse(60, 3)}

Batches == {<<>>, <<Pulse(60, 3)>>, <<Pulse(55, 1), Pulse(60, 3)>>}

\* RecoReadout.cc:31-47: a call of add_pulse
AddPulse ==
  /\ Len(inserted) < MaxInsertions
  /\ \E key \in InsertKeys, pulse \in InsertPulses :
       /\ pulses_' = add_pulse(pulses_, key[1], key[2], key[3], pulse)
       /\ inserted' = Append(inserted, [key |-> key, pulses |-> <<pulse>>])
  /\ rr_call' = NoCall
  /\ UNCHANGED besidesReadout

\* RecoReadout.cc:49-71: a call of add_pulses
AddPulses ==
  /\ Len(inserted) < MaxInsertions
  /\ \E key \in InsertKeys, batch \in Batches :
       /\ pulses_' = add_pulses(pulses_, key[1], key[2], key[3], batch)
       /\ inserted' = Append(inserted, [key |-> key, pulses |-> batch])
  /\ rr_call' = NoCall
  /\ UNCHANGED besidesReadout

\* RecoReadout.cc:73-77: a call of get_pulses, a const member function
GetPulses ==
  /\ \E key \in LookupKeys :
       LET r == at(pulses_, key[1], key[2], key[3])
       IN rr_call' = [called |-> TRUE, key |-> key, threw |-> r.threw,
                      value |-> r.value, before |-> pulses_]
  /\ UNCHANGED <<pulses_, inserted>>
  /\ UNCHANGED besidesReadout

(***************************************************************************)
(* crank.cc: make_nonhefty_timing_hist                                     *)
(***************************************************************************)
NonHeftyIdle ==
  /\ nh_pc = "idle"
  /\ nh_err = "none"
  /\ nh_chains_size = 0
  /\ nh_chain_index = 0
  /\ nh_num_entries = 0
  /\ nh_total_entries = 0
  /\ nh_i = 0
  /\ nh_pulses = NoPulses
  /\ nh_p = 0
  /\ nh_old_time = LOWEST
  /\ nh_time_hist = EmptyHist
  /\ nh_raw_signal = 0
  /\ nh_background = 0
  /\ nh_out = NoCall
  /\ nh_last = NoCall

\* the arguments of the call: raw_signal and background may hold the
\* counts of an earlier call
NonHeftyStart ==
  /\ nh_pc = "start"
  /\ nh_err = "none"
  /\ nh_chains_size \in 0..MaxChains
  /\ nh_chain_index = 0
  /\ nh_num_entries = 0
  /\ nh_total_entries = 0
  /\ nh_i = 0
  /\ nh_pulses = NoPulses
  /\ nh_p = 0
  /\ nh_old_time = LOWEST
  /\ nh_time_hist = EmptyHist
  /\ \E earlier \in {0, 7} : nh_raw_signal = earlier /\ nh_background = earlier
  /\ nh_out = NoCall
  /\ nh_last = NoCall

\* the background window with the end of the Hefty pre-beam window
InNonHeftyBackground_HeftyEnd(start_time) ==
  start_time >= NONHEFTY_BACKGROUND_START_TIME
    /\ start_time < HEFTY_BACKGROUND_END_TIME

\* crank.cc:205-206
InNonHeftyBackground(start_time) ==
  start_time >= NONHEFTY_BACKGROUND_START_TIME
    /\ start_time < NONHEFTY_BACKGROUND_END_TIME

\* crank.cc:211-212
InNonHeftySignal(start_time) ==
  start_time >= NONHEFTY_SIGNAL_START_TIME
    /\ start_time < NONHEFTY_SIGNAL_END_TIME

\* an entry with pulses at the given times on the primary channel, each
\* with a paired pulse 5 ns later
Coincident(times) ==
  Slice(0, [i \in 1..Len(times) |-> Pulse(times[i], 1)],
        Present([i \in 1..Len(times) |-> Pulse(times[i] + 5, 1)]), Absent)

\* the entries of a non-Hefty chain:
\*  - no entry for the primary channel, or an empty one,
\*  - pulses at the bounds of the two windows, all with a paired pulse,
\*  - a pulse in the dead time of the one before it and a pulse in the
\*    signal window without a paired pulse,
\*  - a pulse in the signal window with tank charge 3 in its window,
\*  - a pulse with no entry for the paired channel
NonHeftyEntries ==
  { NoPulses,
    Slice(0, <<>>, Absent, Absent),
    Coincident(<<10, 7999, 20000>>),
    Coincident(<<9, 8000, 19999>>),
    Coincident(<<79999>>),
    Coincident(<<80000>>),
    Slice(0, <<Pulse(10, 1), Pulse(500, 1), Pulse(20000, 1)>>,
          Present(<<Pulse(15, 1), Pulse(505, 1)>>), Absent),
    Slice(0, <<Pulse(30000, 1)>>, Present(<<Pulse(30005, 1)>>),
          Present(<<Pulse(30010, 3)>>)),
    Slice(0, <<Pulse(50, 1)>>, Absent, Absent) }

\* crank.cc:169-176: the outputs are cleared, the histogram is created
NonHeftyClear ==
  /\ nh_pc = "start"
  /\ nh_raw_signal' = 0
  /\ nh_background' = 0
  /\ nh_time_hist' = EmptyHist
  /\ nh_chain_index' = 0
  /\ nh_total_entries' = 0
  /\ nh_pc' = "chain"
  /\ UNCHANGED <<nh_err, nh_chains_size, nh_num_entries, nh_i, nh_pulses, nh_p,
                 nh_old_time, nh_out, nh_last>>
  /\ UNCHANGED besidesNonHefty

\* crank.cc:179-184, 216: the loop over the chains
NextChain ==
  /\ nh_pc = "chain"
  /\ IF nh_chain_index < nh_chains_size
       THEN /\ \E n \in 0..MaxEntries :
                 /\ nh_num_entries' = n
                 /\ nh_total_entries' = nh_total_entries + n
            /\ nh_i' = 0
            /\ nh_pc' = "entry"
       ELSE /\ nh_pc' = "finish"
            /\ UNCHANGED <<nh_num_entries, nh_total_entries, nh_i>>
  /\ UNCHANGED <<nh_err, nh_chains_size, nh_chain_index, nh_pulses, nh_p,
                 nh_old_time, nh_time_hist, nh_raw_signal, nh_background,
                 nh_out, nh_last>>
  /\ UNCHANGED besidesNonHefty

\* crank.cc:185-194: GetEntry and the lookup of the primary channel
GetEntry ==
  /\ nh_pc = "entry"
  /\ IF nh_i < nh_num_entries
       THEN \E entry \in NonHeftyEntries :
              /\ nh_pulses' = entry
              /\ nh_p' = 0
              /\ nh_old_time' = LOWEST
              /\ IF ~HasKey(entry, 4, 1, 0)
                   THEN nh_pc' = "error" /\ nh_err' = "MissingKey"
                   ELSE nh_pc' = "pulse" /\ nh_err' = nh_err
              /\ UNCHANGED nh_chain_index
       ELSE /\ nh_chain_index' = nh_chain_index + 1
            /\ nh_pc' = "chain"
            /\ UNCHANGED <<nh_err, nh_pulses, nh_p, nh_old_time>>
  /\ UNCHANGED <<nh_chains_size, nh_num_entries, nh_total_entries, nh_i,
                 nh_time_hist, nh_raw_signal, nh_background, nh_out, nh_last>>
  /\ UNCHANGED besidesNonHefty

NonHeftyExamined(outcome, pulse) ==
  [called |-> TRUE, outcome |-> outcome, start_time |-> pulse.start_time]

\* crank.cc:195-213: one pulse of the primary channel
NonHeftyPulse ==
  /\ nh_pc = "pulse"
  /\ LET ncv1_pulses == get_pulses(nh_pulses, 4, 1, 0)
     IN IF nh_p >= Len(ncv1_pulses)
          THEN /\ nh_i' = nh_i + 1
               /\ nh_pc' = "entry"
               /\ nh_pulses' = NoPulses
               /\ nh_p' = 0
               /\ nh_old_time' = LOWEST
               /\ nh_last' = NoCall
               /\ UNCHANGED <<nh_err, nh_time_hist, nh_raw_signal,
                              nh_background>>
          ELSE
            LET pulse == ncv1_pulses[nh_p + 1]
                event_time == pulse.start_time
                start_time == pulse.start_time
                v == approve_event(event_time, nh_old_time, pulse,
                                   nh_pulses, 0)
            IN IF v.threw
                 THEN /\ nh_pc' = "error"
                      /\ nh_err' = "MissingKey"
                      /\ nh_last' = NonHeftyExamined("MissingKey", pulse)
                      /\ UNCHANGED <<nh_i, nh_pulses, nh_p, nh_old_time,
                                     nh_time_hist, nh_raw_signal,
                                     nh_background>>
                 ELSE
                   /\ nh_time_hist' = IF v.value
                                        THEN Fill(nh_time_hist, event_time)
                                        ELSE nh_time_hist
                   /\ nh_old_time' = IF v.value THEN event_time
                                       ELSE nh_old_time
                   /\ nh_background' =
                        IF v.value /\ InNonHeftyBackground(start_time)
                          THEN nh_background + 1 ELSE nh_background
                   /\ nh_raw_signal' =
                        IF v.value /\ InNonHeftySignal(start_time)
                          THEN nh_raw_signal + 1 ELSE nh_raw_signal
                   /\ nh_last' = NonHeftyExamined(IF v.value THEN "accepted"
                                                  ELSE "rejected", pulse)
                   /\ nh_p' = nh_p + 1
                   /\ UNCHANGED <<nh_pc, nh_err, nh_i, nh_pulses>>
  /\ UNCHANGED <<nh_chains_size, nh_chain_index, nh_num_entries, nh_total_entries,
                 nh_out>>
  /\ UNCHANGED besidesNonHefty

\* crank.cc:219-246: the Poisson errors and the scaling
NonHeftyFinish ==
  /\ nh_pc = "finish"
  /\ \E norm_factor \in NormFactors :
       LET background_factor ==
             Reduce(<<NONHEFTY_SIGNAL_END_TIME - NONHEFTY_SIGNAL_START_TIME,
                      NONHEFTY_BACKGROUND_END_TIME
                        - NONHEFTY_BACKGROUND_START_TIME>>)
       IN nh_out' =
            [called |-> TRUE,
             background |->
               MulAssign(Counted(nh_background, Sqrt(nh_background)),
                         RMul(background_factor, norm_factor)),
             raw_signal |->
               MulAssign(Counted(nh_raw_signal, Sqrt(nh_raw_signal)),
                         norm_factor),
             time_hist |-> [counts |-> nh_time_hist,
                            factor |-> norm_factor]]
  /\ nh_pc' = "done"
  /\ UNCHANGED <<nh_err, nh_chains_size, nh_chain_index, nh_num_entries,
                 nh_total_entries, nh_i, nh_pulses, nh_p, nh_old_time,
                 nh_time_hist, nh_raw_signal, nh_background, nh_last>>
  /\ UNCHANGED besidesNonHefty

(***************************************************************************)
(* crank.cc: make_timing_distribution                                      *)
(***************************************************************************)
TimingIdle == hefty_mode = FALSE /\ td_out = NoCall

\* crank.cc:708-715: the histogram function of the mode has returned, the
\* rate is handed back
ReturnRate ==
  /\ ~td_out.called
  /\ IF hefty_mode THEN pc = "done" ELSE nh_pc = "done"
  /\ LET raw_signal_ == IF hefty_mode THEN hefty_out.raw_signal
                        ELSE nh_out.raw_signal
         background_ == IF hefty_mode THEN hefty_out.background
                        ELSE nh_out.background
     IN td_out' = [called |-> TRUE, rate |-> raw_signal_,
                   raw_signal |-> raw_signal_, background |-> background_]
  /\ UNCHANGED hefty_mode
  /\ UNCHANGED besidesTiming

(***************************************************************************)
(* RawReader: next() and previous() on one PMTData chain.  A readout is    *)
(* given by the entries handed to RawReadout::add_card, in the order of    *)
(* the calls.                                                              *)
(***************************************************************************)
ReaderIdle ==
  /\ pmt_data_chain_ = <<>>
  /\ rd_bad = 0
  /\ current_entry_ = 0
  /\ last_sequence_id_ = -1
  /\ rd_hist = <<>>

NotExamined == [selected |-> FALSE, entries |-> <<>>]
NoRecords == [entries |-> 0]

\* readout_pot.cc:70-93: the locals of readout_pot before its loops
PotLocals ==
  /\ num_minibuffers = 0
  /\ pot_mb = 0
  /\ minibuffers_begun = 0
  /\ ms_since_epoch = 0
  /\ beam_entry = -1
  /\ need_new_beam_data = TRUE
  /\ looped_once = FALSE
  /\ found_ok = TRUE
  /\ old_beam_entry = -1
  /\ examined = NotExamined
  /\ out_tree = NoRecords

PotIdle ==
  /\ pot_pc = "idle"
  /\ beam_index = <<>>
  /\ readouts_left = 0
  /\ PotLocals

\* the code only compares SequenceIDs with each other and with the initial
\* last_sequence_id_ of -1 (RawReader.cc:98, 143), so the ids other than -1
\* are numbered 1, 2, ... in the order of their first entry
FirstSeenOrder(s) ==
  \A i \in DOMAIN s :
    s[i] = -1 \/ \A k \in 1..(s[i] - 1) : \E j \in 1..(i - 1) : s[j] = k

Streams ==
  UNION {{s \in [1..n -> {-1} \cup (1..n)] : FirstSeenOrder(s)} :
           n \in 1..MaxStreamLen}

\* RawReader.cc:80-81: TChain::LoadTree is negative past either end of the
\* chain
LoadTree(entry) ==
  IF entry < 0 \/ entry >= Len(pmt_data_chain_) THEN -2 ELSE entry

\* no entry counts as the readout loaded last
IsLastLoaded_Never(br_SequenceID_) == FALSE

\* RawReader.cc:98
IsLastLoaded(br_SequenceID_) == br_SequenceID_ = last_sequence_id_

\* no SequenceID ends the readout
NewReadout_Never(first_sequence_id, br_SequenceID_) == FALSE

\* RawReader.cc:143
NewReadout(first_sequence_id, br_SequenceID_) ==
  first_sequence_id # br_SequenceID_

Returned(kind, entry, sequence_id, cards) ==
  [kind |-> kind, current_entry |-> entry, sequence_id |-> sequence_id,
   cards |-> cards]

\* RawReader.cc:74-153: the loop, from the entry it is at
RECURSIVE LoadLoop(_, _, _, _, _)
LoadLoop(entry, step, loaded_first_card, first_sequence_id, cards) ==
  IF LoadTree(entry) < 0
  THEN IF ~loaded_first_card THEN Returned("nullptr", entry, 0, <<>>)
       ELSE Returned("readout", entry, first_sequence_id, cards)
  ELSE LET br_SequenceID_ == pmt_data_chain_[entry + 1]
       IN IF IsLastLoaded(br_SequenceID_)
          THEN LoadLoop(entry + step, step, loaded_first_card,
                        first_sequence_id, cards)
          ELSE IF rd_bad = entry + 1
          THEN Returned("runtime_error", entry, 0, <<>>)
          ELSE IF ~loaded_first_card
          THEN LoadLoop(entry + step, step, TRUE, br_SequenceID_, <<entry>>)
          ELSE IF NewReadout(first_sequence_id, br_SequenceID_)
          THEN Returned("readout", entry, first_sequence_id, cards)
          ELSE LoadLoop(entry + step, step, TRUE, first_sequence_id,
                        Append(cards, entry))

\* RawReader.cc:57-158
load_next_entry(reverse) ==
  IF reverse /\ current_entry_ <= 0
  THEN Returned("nullptr", current_entry_, 0, <<>>)
  ELSE LoadLoop(IF reverse THEN current_entry_ - 1 ELSE current_entry_,
                IF reverse THEN -1 ELSE 1, FALSE, 0, <<>>)

ReaderCall(reverse) ==
  /\ Len(rd_hist) < MaxCalls
  /\ LET r == load_next_entry(reverse)
     IN /\ current_entry_' = r.current_entry
        /\ last_sequence_id_' = IF r.kind = "readout" THEN r.sequence_id
                                ELSE last_sequence_id_
        /\ rd_hist' = Append(rd_hist,
                             [reverse |-> reverse, kind |-> r.kind,
                              sequence_id |-> r.sequence_id,
                              cards |-> r.cards,
                              last |-> last_sequence_id_])
  /\ UNCHANGED <<pmt_data_chain_, rd_bad>>
  /\ UNCHANGED besidesReader

\* RawReader.cc:49-51
NextCall == ReaderCall(FALSE)

\* RawReader.cc:53-55
PreviousCall == ReaderCall(TRUE)

(***************************************************************************)
(* The ValueAndError operators, called one after another                   *)
(***************************************************************************)
NoValue == [value |-> <<0, 1>>, error |-> <<0, 1>>]

ArithIdle ==
  /\ ve_this = NoValue
  /\ ve_other = NoValue
  /\ ve_temp = NoCall
  /\ ve_hist = <<>>

\* the values, errors and factors of the calls, as doubles
ArithValues == {Round(q) : q \in {<<1, 2>>, <<13, 1>>, <<-5, 2>>}}
ArithErrors == {Round(q) : q \in {<<0, 1>>, <<3, 1>>}}
OtherErrors == {Round(q) : q \in {<<0, 1>>, <<4, 1>>}}
Factors ==
  {Round(q) : q \in {<<0, 1>>, <<-3, 1>>, <<1, 10>>,
                      <<Pow2(MantissaBits + MaxExponent - 2), 1>>}}

\* the objects an operator returning by value can be called on
Receivers ==
  {ve_this} \cup (IF ve_temp = NoCall THEN {} ELSE {ve_temp.returned})

Called(op, this, operand, after, returned) ==
  /\ Len(ve_hist) < MaxOps
  /\ ve_hist' = Append(ve_hist, [op |-> op, this |-> this,
                                  operand |-> operand, after |-> after,
                                  returned |-> returned])
  /\ UNCHANGED besidesArith

TimesAssignCall ==
  \E factor \in Factors :
    /\ ve_this' = TimesAssign(ve_this, factor)
    /\ Called("*=", ve_this, factor, ve_this', ve_this')
    /\ UNCHANGED <<ve_other, ve_temp>>

OverAssignCall ==
  \E factor \in Factors :
    /\ ve_this' = OverAssign(ve_this, factor)
    /\ Called("/=", ve_this, factor, ve_this', ve_this')
    /\ UNCHANGED <<ve_other, ve_temp>>

MinusCall ==
  \E this \in Receivers :
    /\ ve_temp' = [called |-> TRUE, returned |-> Minus(this, ve_other)]
    /\ Called("-", this, ve_other, this, ve_temp'.returned)
    /\ UNCHANGED <<ve_this, ve_other>>

TimesCall ==
  \E this \in Receivers, factor \in Factors :
    /\ ve_temp' = [called |-> TRUE, returned |-> Product(this, factor)]
    /\ Called("*", this, factor, this, ve_temp'.returned)
    /\ UNCHANGED <<ve_this, ve_other>>

OverCall ==
  \E this \in Receivers, factor \in Factors :
    /\ ve_temp' = [called |-> TRUE, returned |-> Quotient(this, factor)]
    /\ Called("/", this, factor, this, ve_temp'.returned)
    /\ UNCHANGED <<ve_this, ve_other>>

ArithInit ==
  /\ HeftyIdle /\ ApproveIdle /\ CardIdle /\ ReadoutIdle /\ NonHeftyIdle
  /\ TimingIdle /\ ReaderIdle /\ PotIdle
  /\ ve_this \in [value : ArithValues, error : ArithErrors]
  /\ ve_other \in [value : {Round(<<3, 1>>)}, error : OtherErrors]
  /\ ve_temp = NoCall
  /\ ve_hist = <<>>

ArithNext ==
  \/ TimesAssignCall
  \/ OverAssignCall
  \/ MinusCall
  \/ TimesCall
  \/ OverCall

(***************************************************************************)
(* readout_pot: the beam status of every minibuffer of every readout       *)
(***************************************************************************)
\* the (start_ms, end_ms) pairs of the beam index and the trigger times of
\* the minibuffers, in ms since the epoch
IndexRanges == {<<0, 10000>>, <<10000, 20000>>}
TriggerTimes == {5000, 5001, 12000}
BeamIndexes == UNION {[1..n -> IndexRanges] : n \in 0..MaxIndex}

\* readout_pot.cc:59: the index has one pair per entry of the beam branch
beam_branch_entries == Len(beam_index)

\* a range is refused unless it starts at or before the trigger time
NeedNewBeamData_StartOnly(time, start_ms, end_ms) == time < start_ms

\* readout_pot.cc:150-151
NeedNewBeamData(time, start_ms, end_ms) ==
  (time < start_ms) \/ (time + FIVE_SECONDS > end_ms)

PotFrame == UNCHANGED <<beam_index, besidesPot>>

\* readout_pot.cc:95-99: reader.next() returns a readout
NextReadout ==
  /\ pot_pc = "readout"
  /\ readouts_left > 0
  /\ readouts_left' = readouts_left - 1
  /\ num_minibuffers' \in 0..MaxPotMinibuffers
  /\ pot_mb' = 0
  /\ pot_pc' = "minibuffer"
  /\ UNCHANGED <<minibuffers_begun, ms_since_epoch, beam_entry,
                 need_new_beam_data, looped_once, found_ok, old_beam_entry,
                 examined, out_tree>>
  /\ PotFrame

\* readout_pot.cc:95-96, 221-225: reader.next() returns nullptr, or the
\* interrupted flag is found set
LeaveReadouts ==
  /\ pot_pc = "readout"
  /\ pot_pc' = "done"
  /\ UNCHANGED <<readouts_left, num_minibuffers, pot_mb, minibuffers_begun,
                 ms_since_epoch, beam_entry, need_new_beam_data, looped_once,
                 found_ok, old_beam_entry, examined, out_tree>>
  /\ PotFrame

\* readout_pot.cc:106-125: the head of the minibuffer loop
BeginMinibuffer ==
  /\ pot_pc = "minibuffer"
  /\ IF pot_mb < num_minibuffers
     THEN /\ ms_since_epoch' \in TriggerTimes
          /\ looped_once' = FALSE
          /\ found_ok' = TRUE
          /\ old_beam_entry' = beam_entry
          /\ examined' = [selected |-> ~need_new_beam_data, entries |-> <<>>]
          /\ minibuffers_begun' = minibuffers_begun + 1
          /\ pot_pc' = "search"
     ELSE /\ pot_pc' = "readout"
          /\ UNCHANGED <<ms_since_epoch, looped_once, found_ok,
                         old_beam_entry, examined, minibuffers_begun>>
  /\ UNCHANGED <<readouts_left, num_minibuffers, pot_mb, beam_entry,
                 need_new_beam_data, out_tree>>
  /\ PotFrame

\* readout_pot.cc:126-152: one pass through the body of the do loop
SearchStep ==
  /\ pot_pc = "search"
  /\ LET stepped == IF need_new_beam_data THEN beam_entry + 1 ELSE beam_entry
         past == need_new_beam_data /\ stepped >= beam_branch_entries
     IN IF past /\ looped_once
        THEN /\ found_ok' = FALSE
             /\ beam_entry' = stepped
             /\ pot_pc' = "status"
             /\ UNCHANGED <<looped_once, need_new_beam_data, examined>>
        ELSE LET entry == IF past THEN 0 ELSE stepped
             IN /\ beam_entry' = entry
                /\ looped_once' = (looped_once \/ past)
                /\ IF entry + 1 \in DOMAIN beam_index
                   THEN /\ need_new_beam_data'
                             = NeedNewBeamData(ms_since_epoch,
                                               beam_index[entry + 1][1],
                                               beam_index[entry + 1][2])
                        /\ examined' = [examined EXCEPT
                                          !.entries = Append(@, entry)]
                        /\ pot_pc' = IF need_new_beam_data' THEN "search"
                                     ELSE "status"
                   ELSE \* beam_index->at throws std::out_of_range
                        /\ pot_pc' = "out_of_range"
                        /\ UNCHANGED <<need_new_beam_data, examined>>
                /\ UNCHANGED found_ok
  /\ UNCHANGED <<readouts_left, num_minibuffers, pot_mb, minibuffers_begun,
                 ms_since_epoch, old_beam_entry, out_tree>>
  /\ PotFrame

\* readout_pot.cc:154-218: the beam status of the minibuffer is worked out
\* and the record filled; what the beam data hold for the trigger time is
\* not modelled, so a found entry gives either status
FillRecord ==
  /\ pot_pc = "status"
  /\ \E status \in IF found_ok THEN {"default", "pot"} ELSE {"default"} :
       out_tree' = [entries |-> out_tree.entries + 1,
                    ms_since_epoch |-> ms_since_epoch,
                    found_ok |-> found_ok,
                    beam_entry |-> beam_entry,
                    old_beam_entry |-> old_beam_entry,
                    examined |-> examined,
                    beam_status |-> status]
  /\ pot_mb' = pot_mb + 1
  /\ pot_pc' = "minibuffer"
  /\ UNCHANGED <<readouts_left, num_minibuffers, minibuffers_begun,
                 ms_since_epoch, beam_entry, need_new_beam_data, looped_once,
                 found_ok, old_beam_entry, examined>>
  /\ PotFrame

PotInit ==
  /\ HeftyIdle /\ ApproveIdle /\ CardIdle /\ ReadoutIdle /\ NonHeftyIdle
  /\ TimingIdle /\ ArithIdle /\ ReaderIdle
  /\ pot_pc = "readout"
  /\ beam_index \in BeamIndexes
  /\ readouts_left \in 0..MaxPotReadouts
  /\ PotLocals

PotNext ==
  \/ NextReadout
  \/ LeaveReadouts
  \/ BeginMinibuffer
  \/ SearchStep
  \/ FillRecord

ReaderInit ==
  /\ HeftyIdle /\ ApproveIdle /\ CardIdle /\ ReadoutIdle /\ NonHeftyIdle
  /\ TimingIdle /\ ArithIdle /\ PotIdle
  /\ pmt_data_chain_ \in Streams
  /\ rd_bad \in {0, Len(pmt_data_chain_)}
  /\ current_entry_ = 0
  /\ last_sequence_id_ = -1
  /\ rd_hist = <<>>

ReaderNext == NextCall \/ PreviousCall

vars ==
  <<heftyVars, approveVars, cardVars, readoutVars, nonHeftyVars, timingVars, arithVars,
    readerVars, potVars>>

Init ==
  /\ HeftyInit /\ ApproveIdle /\ CardIdle /\ ReadoutIdle /\ NonHeftyIdle
  /\ TimingIdle /\ ArithIdle /\ ReaderIdle /\ PotIdle

Next ==
  \/ CheckChainSizes
  \/ OpenChunk
  \/ BuildIndex
  \/ StartLoop
  \/ LoadRow
  \/ StartMinibuffer
  \/ ProcessPulse
  \/ EndReadout
  \/ EndChunk
  \/ Finish

Spec == Init /\ [][Next]_vars

ApproveInit ==
  /\ HeftyIdle /\ ApproveIdle /\ CardIdle /\ ReadoutIdle /\ NonHeftyIdle
  /\ TimingIdle /\ ArithIdle /\ ReaderIdle /\ PotIdle

ApproveNext == ApproveCall

ApproveSpec == ApproveInit /\ [][ApproveNext]_vars

CardStart ==
  /\ HeftyIdle /\ ApproveIdle /\ CardInit /\ ReadoutIdle /\ NonHeftyIdle
  /\ TimingIdle /\ ArithIdle /\ ReaderIdle /\ PotIdle

CardNext ==
  \/ CheckCard
  \/ AddChannel
  \/ AddChannelCall
  \/ MinibufferDataCall

CardSpec == CardStart /\ [][CardNext]_vars

ReadoutInit ==
  /\ HeftyIdle /\ ApproveIdle /\ CardIdle /\ ReadoutIdle /\ NonHeftyIdle
  /\ TimingIdle /\ ArithIdle /\ ReaderIdle /\ PotIdle

ReadoutNext ==
  \/ AddPulse
  \/ AddPulses
  \/ GetPulses

ReadoutSpec == ReadoutInit /\ [][ReadoutNext]_vars

\* every label of crank.cc:30-37
AllLabels ==
  {UNKNOWN_MINIBUFFER_LABEL, BEAM_MINIBUFFER_LABEL, NCV_MINIBUFFER_LABEL,
   SOURCE_MINIBUFFER_LABEL, COSMIC_MINIBUFFER_LABEL,
   PERIODIC_MINIBUFFER_LABEL, SOFTWARE_MINIBUFFER_LABEL,
   MINRATE_MINIBUFFER_LABEL}

\* the beam time of an earlier readout, and the offsets of db_Time[m] from
\* it that put a pulse at 50 ns just below and at the start of the signal
\* window
SpillTime == 1000000
SpillOffsets == {0, 9949, 9950}

\* one pulse on the primary channel at the bounds of the signal window, or
\* well below it, with a paired pulse 5 ns later; or a pulse whose paired
\* pulse is 500 ns away; or two pulses in the signal window
SpillContents ==
  {Slice(0, <<Pulse(t, 1)>>, Present(<<Pulse(t + 5, 1)>>), Absent) :
     t \in {50, 9999, 10000, 69999, 70000}}
  \cup {Slice(0, <<Pulse(10000, 1)>>, Present(<<Pulse(10500, 1)>>), Absent),
        Slice(0, <<Pulse(10000, 1), Pulse(12000, 1)>>,
              Present(<<Pulse(10005, 1), Pulse(12005, 1)>>), Absent)}

\* make_hefty_timing_hist at the top of the loop over ncv1_pulses
\* (crank.cc:380), in minibuffer 0 of the second of two readouts of one
\* chunk; the first readout held a beam minibuffer at SpillTime, or none
SpillStart ==
  /\ pc = "pulse"
  /\ err = "none"
  /\ reco_readout_chains_size = 1
  /\ heftydb_chains_size = 1
  /\ c = 0
  /\ heftydb_chain = <<1, 2>>
  /\ num_reco_readout_entries = 2
  /\ idx = 2
  /\ sequenceID_to_entry = IndexPut(IndexPut(<<>>, 1, 0), 2, 1)
  /\ it = 1
  /\ db_SequenceID = 2
  /\ rr_sequence_id = 2
  /\ rr_pulses \in SpillContents
  /\ m = 0
  /\ db_Label \in AllLabels
  /\ \E offset \in SpillOffsets : db_Time = SpillTime + offset
  /\ p = 0
  /\ old_time = LOWEST
  /\ last_beam_time \in {0, SpillTime, db_Time}
  /\ db_Label = BEAM_MINIBUFFER_LABEL <=> last_beam_time = db_Time
  /\ num_background_minibuffers =
       IF is_background_minibuffer(db_Label) THEN 1 ELSE 0
  /\ num_beam_minibuffers =
       (IF last_beam_time = SpillTime THEN 1 ELSE 0)
       + (IF db_Label = BEAM_MINIBUFFER_LABEL THEN 1 ELSE 0)
  /\ raw_signal = 0
  /\ background = 0
  /\ pre_beam_background = 0
  /\ time_hist = EmptyHist
  /\ processed = <<[entry |-> 0, id |-> 1, chunk |-> 0],
                   [entry |-> 1, id |-> 2, chunk |-> 0]>>
  /\ beam_seen = IF last_beam_time = 0 THEN NoBeam
                 ELSE [seen |-> TRUE, time |-> last_beam_time]
  /\ accepted = <<>>
  /\ last = NoLast
  /\ busy = 1
  /\ loaded = 2
  /\ hefty_out = [called |-> FALSE]

SpillInit ==
  /\ SpillStart /\ ApproveIdle /\ CardIdle /\ ReadoutIdle /\ NonHeftyIdle
  /\ TimingIdle /\ ArithIdle /\ ReaderIdle /\ PotIdle

SpillNext ==
  \/ ProcessPulse
  \/ EndReadout
  \/ EndChunk
  \/ Finish

SpillSpec == SpillInit /\ [][SpillNext]_vars

NonHeftyInit ==
  /\ HeftyIdle /\ ApproveIdle /\ CardIdle /\ ReadoutIdle /\ NonHeftyStart
  /\ TimingIdle /\ ArithIdle /\ ReaderIdle /\ PotIdle

NonHeftyNext ==
  \/ NonHeftyClear
  \/ NextChain
  \/ GetEntry
  \/ NonHeftyPulse
  \/ NonHeftyFinish

NonHeftySpec == NonHeftyInit /\ [][NonHeftyNext]_vars

\* make_timing_distribution in one of its two modes; the Hefty histogram
\* function is taken up at the top of its pulse loop, where its event
\* times reach the signal window
TimingInit ==
  /\ ApproveIdle /\ CardIdle /\ ReadoutIdle /\ ArithIdle
  /\ ReaderIdle /\ PotIdle
  /\ td_out = NoCall
  /\ \/ hefty_mode = TRUE /\ SpillStart /\ NonHeftyIdle
     \/ hefty_mode = FALSE /\ HeftyIdle /\ NonHeftyStart

TimingNext ==
  \/ ProcessPulse
  \/ EndReadout
  \/ EndChunk
  \/ Finish
  \/ NonHeftyClear
  \/ NextChain
  \/ GetEntry
  \/ NonHeftyPulse
  \/ NonHeftyFinish
  \/ ReturnRate

TimingSpec == TimingInit /\ [][TimingNext]_vars

ArithSpec == ArithInit /\ [][ArithNext]_vars

ReaderSpec == ReaderInit /\ [][ReaderNext]_vars

PotSpec == PotInit /\ [][PotNext]_vars

\* readout_pot runs on: no step of it that can be taken is put off for ever
PotLiveSpec == PotSpec /\ WF_vars(PotNext)

(***************************************************************************)
(* Properties                                                              *)
(***************************************************************************)
\* a pulse reached the timestamp check and the cut cascade
Examines(l) == l.outcome \in {"accepted", "unknown", "rejected", "MissingKey"}

\* approve_event returned true for the pulse
PassedCuts(l) == l.outcome \in {"accepted", "unknown"}

C1_Rows ==
  /\ \A i, j \in 1..Len(processed) :
       i < j => /\ processed[i].id < processed[j].id
                /\ processed[i].entry # processed[j].entry
  /\ \A i \in 1..Len(processed) :
       /\ processed[i].entry \in 0..(Len(heftydb_chain) - 1)
       /\ heftydb_chain[processed[i].entry + 1] = processed[i].id
  /\ pc \in {"row", "minibuffer", "pulse"} =>
       \A i \in 1..Len(processed) : processed[i].chunk = c
  /\ (pc \in {"chunk", "done"} /\ c > 0) =>
       /\ Len(processed) = Len(heftydb_chain)
       /\ {processed[i].entry : i \in 1..Len(processed)}
            = 0..(Len(heftydb_chain) - 1)
       /\ \A i \in 1..Len(processed) : processed[i].chunk = c - 1

C1_Chunks ==
  /\ c' = c \/ (c' = c + 1 /\ pc = "row" /\ pc' = "chunk")
  /\ c' <= heftydb_chains_size

\* C1: within a chunk the rows are joined in strictly ascending sequence_id
\* order, each row of the chunk exactly once by the time the chunk is left,
\* whatever their physical order; the chunk index only ever moves to the
\* next chunk, when the rows of the current one are exhausted.
C1_AscendingJoin == [](C1_Rows) /\ [][C1_Chunks]_vars

\* a chunk stored in descending id order has been joined completely, the
\* second physical row first
C1_Witness ==
  /\ pc = "chunk"
  /\ heftydb_chain = <<2, 1>>
  /\ Len(processed) = 2
  /\ processed[1].entry = 1
  /\ processed[2].entry = 0

\* C2: a primary-channel pulse of a minibuffer that is not calibration-source
\* gets event_time = start_time + (timestamp - timestamp of the last beam
\* minibuffer visited in the chunk, the current one included, with or
\* without pulses); in a calibration-source minibuffer event_time =
\* start_time.  Beam at 1000000, self-trigger at 1002050, pulse at 50:
\* event_time 2100, accepted with a paired pulse at 55 and no tank charge.
C2_EventTime ==
  (Examines(last) \/ last.outcome = "InvalidTimestamp") =>
    /\ (last.label # SOURCE_MINIBUFFER_LABEL /\ beam_seen.seen
          /\ last.time >= beam_seen.time) =>
         last.event_time = last.start_time + (last.time - beam_seen.time)
    /\ last.label = SOURCE_MINIBUFFER_LABEL =>
         last.event_time = last.start_time
    /\ (/\ last.label = NCV_MINIBUFFER_LABEL
        /\ beam_seen = [seen |-> TRUE, time |-> 1000000]
        /\ last.time = 1002050
        /\ last.start_time = 50
        /\ last.old_time = LOWEST
        /\ HasKey(last.pulses, 18, 0, last.m)
        /\ \E i \in 1..Len(last.pulses[<<18, 0, last.m>>]) :
             last.pulses[<<18, 0, last.m>>][i].start_time = 55
        /\ TankChannels(last.pulses) = {}) =>
         last.event_time = 2100 /\ last.outcome = "accepted"

\* the scenario: the pulse at 50 ns of a self-trigger minibuffer, 2050 ns
\* after the beam minibuffer, is accepted at 2100 ns
C2_Witness ==
  /\ last.outcome = "accepted"
  /\ last.label = NCV_MINIBUFFER_LABEL
  /\ last.start_time = 50
  /\ last.time = 1002050
  /\ beam_seen.time = 1000000
  /\ last.event_time = 2100
  /\ last.pulses[<<18, 0, last.m>>][1] = Pulse(55, 1)

C3_State ==
  /\ Examines(last) =>
       /\ last.cuts = <<"veto">>
            <=> last.event_time <= last.old_time + VETO_TIME
       /\ last.cuts = <<"veto">> => last.outcome = "rejected"
       /\ last.event_time = last.old_time + 500 => last.outcome = "rejected"
       /\ last.outcome # "accepted" => old_time = last.old_time
       /\ last.outcome = "accepted" => old_time = last.event_time
  /\ (pc = "pulse" /\ p = 0) => old_time = LOWEST
  /\ \A i, j \in 1..Len(accepted) :
       i < j => accepted[j] - accepted[i] > VETO_TIME

C3_Step ==
  old_time' # old_time =>
    \/ pc = "minibuffer" /\ pc' \in {"pulse", "row"} /\ old_time' = LOWEST
    \/ /\ pc = "pulse"
       /\ last'.outcome = "accepted"
       /\ old_time' = last'.event_time
       /\ accepted' = Append(accepted, old_time')

\* C3: a pulse is rejected by the dead-time veto iff event_time <= old_time
\* + VETO_TIME; old_time is the lowest value when the pulses of a
\* minibuffer start and changes only when a pulse is accepted (approved and
\* filled), to that pulse's event_time; two accepted events of a minibuffer
\* are more than VETO_TIME apart; a pulse 500 ns after an accepted one is
\* rejected.
C3_DeadTime == [](C3_State) /\ [][C3_Step]_vars

\* the pulses at 50 and 1100 ns were accepted, the pulse at 550 ns between
\* them was rejected and did not move old_time
C3_Witness ==
  /\ Len(accepted) = 2
  /\ last.outcome = "accepted"
  /\ last.start_time = 1100
  /\ last.old_time # LOWEST
  /\ accepted[2] - accepted[1] = 1050

\* C4: approve_event returns true iff the dead-time veto, the tank charge
\* cut and the coincidence cut all pass; the cuts are evaluated in that
\* order up to the first that fails; a pulse that fails the dead-time veto
\* is rejected without any lookup, hence without MissingKey even when the
\* paired channel has no entry for the minibuffer.
C4_Cascade ==
  ap_args.called =>
    LET a == ap_args
        r == ap_result
        tc == tank_charge(a.pulses, a.m, a.pulse.start_time,
                          a.pulse.start_time + TANK_CHARGE_WINDOW_LENGTH)
        vetoPass == a.event_time > a.old_time + VETO_TIME
        tankPass == tc.num_unique < UNIQUE_WATER_PMT_CUT
                      /\ tc.charge < TANK_CHARGE_CUT
        paired == IF HasKey(a.pulses, 18, 0, a.m)
                    THEN a.pulses[<<18, 0, a.m>>] ELSE <<>>
        coincPass == \E i \in 1..Len(paired) :
                        Abs(a.pulse.start_time - paired[i].start_time)
                          < COINCIDENCE_TOLERANCE
    IN /\ r.value <=> (vetoPass /\ tankPass /\ coincPass)
       /\ r.cuts = IF ~vetoPass THEN <<"veto">>
                   ELSE IF ~tankPass THEN <<"veto", "tank">>
                   ELSE <<"veto", "tank", "coincidence">>
       /\ ~vetoPass => ~r.threw /\ ~r.value
       /\ r.threw <=> (vetoPass /\ tankPass
                         /\ ~HasKey(a.pulses, 18, 0, a.m))

\* a pulse inside the dead time, in a minibuffer without an entry for the
\* paired channel, was rejected by the veto alone
C4_Witness ==
  /\ ap_args.called
  /\ ap_args.event_time <= ap_args.old_time + VETO_TIME
  /\ ~HasKey(ap_args.pulses, 18, 0, ap_args.m)
  /\ ap_result = Verdict(FALSE, FALSE, <<"veto">>)

\* C5: for a flat buffer of Channels * BufferSize samples with BufferSize
\* even, the constructed card holds, for every channel index, a waveform of
\* exactly BufferSize samples that starts with the half-length region at
\* index * BufferSize, and every sample of the buffer belongs to exactly one
\* channel.
C5_TwoHalves ==
  (card_pc = "done" /\ Len(Data) = Channels * BufferSize
     /\ BufferSize % 2 = 0) =>
    /\ DOMAIN channels_ = 0..(Channels - 1)
    /\ \A ch \in DOMAIN channels_ :
         /\ Len(channels_[ch].data) = BufferSize
         /\ \A i \in 1..(BufferSize \div 2) :
              channels_[ch].data[i] = ToShort(Data[ch * BufferSize + i])
    /\ \A k \in 1..Len(Data) :
         Cardinality({x \in {<<ch, i>> : ch \in DOMAIN channels_,
                                          i \in 1..MaxBufferSize} :
                        /\ x[2] <= Len(channels_[x[1]].data)
                        /\ channels_[x[1]].data[x[2]] = ToShort(Data[k])})
           = 1

C6_State ==
  /\ (last_beam_time = 0) <=> ~beam_seen.seen
  /\ (PassedCuts(last) /\ ~beam_seen.seen) =>
       /\ last.outcome = "unknown"
       /\ old_time = last.old_time
  /\ last.outcome = "unknown" => ~beam_seen.seen

C6_Step ==
  (pc = "pulse" /\ ~beam_seen.seen /\ PassedCuts(last')) =>
    /\ UNCHANGED <<time_hist, raw_signal, background, pre_beam_background>>
    /\ old_time' = old_time
    /\ accepted' = accepted
    /\ err' = "none"
    /\ pc' \in {"pulse", "minibuffer"}

\* C6: while no beam minibuffer has been seen in the chunk (last_beam_time
\* is 0), a pulse that passes the cuts changes neither the histogram, nor
\* the raw signal count, nor the background count, nor the pre-beam
\* background count, nor old_time, and the loop goes on without an error.
C6_UnknownBeamTime == [](C6_State) /\ [][C6_Step]_vars

\* a pulse passed the cuts before any beam minibuffer and nothing was filled
C6_Witness ==
  /\ last.outcome = "unknown"
  /\ last.beam_time = 0
  /\ old_time = LOWEST
  /\ time_hist = EmptyHist
  /\ pc \in {"pulse", "minibuffer"}

C7_State ==
  /\ err = "SequenceIDMismatch" => db_SequenceID # rr_sequence_id
  /\ pc \in {"minibuffer", "pulse"} => db_SequenceID = rr_sequence_id

C7_Step ==
  /\ counts' # counts => db_SequenceID' = rr_sequence_id'
  /\ (pc = "row" /\ pc' # "chunk" /\ db_SequenceID' # rr_sequence_id') =>
       /\ err' = "SequenceIDMismatch"
       /\ pc' = "error"
       /\ UNCHANGED counts
       /\ processed' = processed

\* C7: when the readout loaded for a joined row carries another sequence id
\* than the heftydb row, the call ends with SequenceIDMismatch and no count
\* has changed for that row; every change of the histogram or of a count
\* is made under equal sequence ids.
C7_SequenceIDMismatch == [](C7_State) /\ [][C7_Step]_vars

\* the second row of a chunk failed the comparison after the first row had
\* been joined and walked through
C7_Witness ==
  /\ err = "SequenceIDMismatch"
  /\ it = 1
  /\ Len(processed) = 1

HasDuplicates(chain) ==
  \E i, j \in 1..Len(chain) : i # j /\ chain[i] = chain[j]

C8_State ==
  /\ err = "DuplicateSequenceID" =>
       HasDuplicates(heftydb_chain) /\ processed = <<>> /\ it = 0
  /\ pc \in {"row", "minibuffer", "pulse"} => ~HasDuplicates(heftydb_chain)
  /\ (pc = "index" /\ idx = Len(heftydb_chain)) =>
       ~HasDuplicates(heftydb_chain)

C8_Step ==
  /\ (counts' # counts \/ (processed' # processed /\ processed' # <<>>)) =>
       ~HasDuplicates(heftydb_chain')
  /\ (err = "none" /\ err' = "DuplicateSequenceID") =>
       pc = "index" /\ UNCHANGED counts

\* C8: a chunk whose heftydb rows repeat a sequence id ends the call with
\* DuplicateSequenceID while the index is built: no row of the chunk is
\* joined and no histogram fill or count update is made for it.
C8_DuplicateSequenceID == [](C8_State) /\ [][C8_Step]_vars

\* the second row of a chunk repeated the id of the first
C8_Witness ==
  /\ err = "DuplicateSequenceID"
  /\ idx = 1
  /\ Len(heftydb_chain) = 2
  /\ heftydb_chain[1] = heftydb_chain[2]

C9_State ==
  /\ err = "StreamLengthMismatch" =>
       /\ \/ reco_readout_chains_size # heftydb_chains_size
          \/ num_reco_readout_entries # Len(heftydb_chain)
       /\ processed = <<>>
  /\ (pc # "start" /\ err # "StreamLengthMismatch") =>
       reco_readout_chains_size = heftydb_chains_size
  /\ pc \in {"index", "row", "minibuffer", "pulse"} =>
       num_reco_readout_entries = Len(heftydb_chain)

C9_Step ==
  /\ (counts' # counts \/ (processed' # processed /\ processed' # <<>>)) =>
       /\ reco_readout_chains_size' = heftydb_chains_size'
       /\ num_reco_readout_entries' = Len(heftydb_chain')
  /\ (err = "none" /\ err' = "StreamLengthMismatch") =>
       pc \in {"start", "chunk"} /\ UNCHANGED counts

\* C9: when the two chain vectors differ in size, or the two chains of a
\* chunk differ in their numbers of entries, the call ends with
\* StreamLengthMismatch before a row of that chunk is joined and before a
\* count changes for it.
C9_StreamLengthMismatch == [](C9_State) /\ [][C9_Step]_vars

\* the chains of the second chunk differ in length; the first chunk was
\* processed
C9_Witness ==
  /\ err = "StreamLengthMismatch"
  /\ c = 1
  /\ reco_readout_chains_size = heftydb_chains_size
  /\ num_reco_readout_entries # Len(heftydb_chain)

\* C10: a pulse of a minibuffer that is not calibration-source and whose
\* timestamp is below last_beam_time ends the call with InvalidTimestamp;
\* every such pulse that reaches the cuts has an offset timestamp -
\* last_beam_time that is not negative and did not wrap, and event_time >=
\* start_time.
C10_InvalidTimestamp ==
  /\ last.outcome # "none" =>
       ((last.label # SOURCE_MINIBUFFER_LABEL /\ last.time < last.beam_time)
          <=> last.outcome = "InvalidTimestamp")
  /\ last.outcome = "InvalidTimestamp" =>
       err = "InvalidTimestamp" /\ pc = "error"
  /\ (Examines(last) /\ last.label # SOURCE_MINIBUFFER_LABEL) =>
       /\ last.time - last.beam_time >= 0
       /\ last.event_time - last.start_time = last.time - last.beam_time
       /\ last.event_time >= last.start_time

\* a self-trigger minibuffer stamped before the last beam minibuffer
C10_Witness ==
  /\ err = "InvalidTimestamp"
  /\ last.label = NCV_MINIBUFFER_LABEL
  /\ last.time = 1000000
  /\ last.beam_time = 1002050

C11_State ==
  /\ pc \in {"row", "minibuffer", "pulse"} =>
       last_beam_time = (IF beam_seen.seen THEN beam_seen.time ELSE 0)
  /\ (Examines(last) /\ last.m = 0 /\ beam_seen.seen
        /\ last.label \notin {BEAM_MINIBUFFER_LABEL, SOURCE_MINIBUFFER_LABEL})
       => /\ it >= 1
          /\ last.beam_time = beam_seen.time
          /\ last.event_time
               = last.start_time + (last.time - beam_seen.time)

C11_Step ==
  last_beam_time' # last_beam_time =>
    \/ pc = "index" /\ pc' = "row" /\ last_beam_time' = 0
    \/ /\ pc = "minibuffer"
       /\ db_Label' = BEAM_MINIBUFFER_LABEL
       /\ last_beam_time' = db_Time'

\* C11: last_beam_time becomes 0 only when the loop over the rows of a
\* chunk starts; between two readouts of the chunk it keeps its value, so a
\* pulse of the first minibuffer of a readout, in a minibuffer that is
\* neither beam nor source, is timed against the last beam minibuffer of an
\* earlier readout of the chunk.
C11_AcrossReadouts == [](C11_State) /\ [][C11_Step]_vars

\* the second readout of a chunk starts with a self-trigger minibuffer whose
\* pulse is timed, and accepted, against the beam minibuffer of the first
C11_Witness ==
  /\ it = 1
  /\ last.outcome = "accepted"
  /\ last.m = 0
  /\ last.label = NCV_MINIBUFFER_LABEL
  /\ last.beam_time = 1000000
  /\ last.event_time = last.start_time + 2050

\* C12: the construction of a RawCard ends with MalformedBuffer and without
\* any channel whenever Len(Data) # Channels * BufferSize or the number of
\* trigger counters is not BufferSize / MiniBufferSize, and it succeeds only
\* when both equalities hold.
C12_MalformedBuffer ==
  LET sizes_ok == /\ Len(Data) = Channels * BufferSize
                  /\ Len(trigger_counts_) = BufferSize \div MiniBufferSize
  IN /\ (card_pc \in {"channels", "done", "error"} /\ ~sizes_ok) =>
          /\ card_pc = "error"
          /\ card_err = "MalformedBuffer"
          /\ channels_ = <<>>
     /\ card_pc = "done" => sizes_ok

\* C13: add_channel on a card that holds the channel id ends with
\* DuplicateChannel and leaves the stored channel as it was when
\* overwrite_ok is not set; with overwrite_ok set the stored channel is
\* replaced by the new one, and the card holds one channel under that id.
C13_DuplicateChannel ==
  (card_call.called /\ card_call.op = "add_channel"
     /\ card_call.channel_number \in DOMAIN card_call.before) =>
    LET a == card_call
        new == RawChannel(a.channel_number, a.buffer,
                          a.channel_number * BufferSize,
                          a.channel_number * BufferSize
                            + (BufferSize \div 2),
                          7, Len(trigger_counts_))
    IN /\ ~a.overwrite_ok =>
            card_err = "DuplicateChannel" /\ channels_ = a.before
       /\ a.overwrite_ok =>
            /\ DOMAIN channels_ = DOMAIN a.before
            /\ channels_[a.channel_number] = new
            /\ \A k \in DOMAIN a.before \ {a.channel_number} :
                 channels_[k] = a.before[k]

RECURSIVE Windows(_, _)
\* the windows 0 .. n - 1 of a channel, one after the other
Windows(channel, n) ==
  IF n = 0 THEN <<>>
  ELSE Windows(channel, n - 1) \o minibuffer_data(channel, n - 1).data

\* C14: minibuffer_data(i) fails for every i >= num_minibuffers; for i <
\* num_minibuffers it returns the samples [i * L, (i + 1) * L) of the
\* channel, L = sample_count / num_minibuffers, read as unsigned 16-bit
\* values: every window has L samples, windows of different indices share
\* no sample, and the windows 0 .. num_minibuffers - 1 one after the other
\* are the samples of the channel when sample_count is a multiple of
\* num_minibuffers.
C14_MinibufferData ==
  (card_call.called /\ card_call.op = "minibuffer_data") =>
    LET ch == card_call.channel
        i == card_call.mb_index
        n == ch.num_minibuffers
        L == Len(ch.data) \div n
    IN /\ i >= n <=> card_err # "none"
       /\ i >= n => card_err = "OutOfRange"
       /\ i < n =>
            /\ Len(card_call.data) = L
            /\ \A k \in 1..L :
                 card_call.data[k] = ToUShort(ch.data[i * L + k])
            /\ \A j \in 0..(n - 1) :
                 j # i =>
                   \A k1 \in 1..L, k2 \in 1..L :
                     minibuffer_data(ch, j).data[k2] # card_call.data[k1]
            /\ Len(ch.data) % n = 0 =>
                 Windows(ch, n) = [k \in 1..Len(ch.data) |->
                                     ToUShort(ch.data[k])]

\* the second of two windows of one sample each was returned, and the sample
\* is one that the channel stores as a negative short
C14_Witness ==
  /\ card_call.called
  /\ card_call.op = "minibuffer_data"
  /\ card_call.mb_index = 1
  /\ card_call.channel.num_minibuffers = 2
  /\ card_call.data = <<32771>>
  /\ card_call.channel.data = <<-32766, -32765>>

RECURSIVE InsertedUnder(_, _)
\* the pulses of the insertions made under a key, in the order of the calls
InsertedUnder(log, key) ==
  IF log = <<>> THEN <<>>
  ELSE (IF Head(log).key = key THEN Head(log).pulses ELSE <<>>)
       \o InsertedUnder(Tail(log), key)

\* an insertion was made under the key
InsertedKey(log, key) == \E i \in 1..Len(log) : log[i].key = key

C15_State ==
  /\ \A key \in DOMAIN pulses_ :
       get_pulses(pulses_, key[1], key[2], key[3])
         = InsertedUnder(inserted, key)
  /\ (rr_call.called /\ rr_call.threw = "none") =>
       rr_call.value = InsertedUnder(inserted, rr_call.key)

C15_Step ==
  inserted' # inserted =>
    \A key \in LookupKeys :
      key # inserted'[Len(inserted')].key =>
        /\ key \in DOMAIN pulses_' <=> key \in DOMAIN pulses_
        /\ key \in DOMAIN pulses_ => pulses_'[key] = pulses_[key]

\* C15: after any sequence of add_pulse and add_pulses calls, get_pulses of
\* a key returns exactly the pulses inserted under that key, in the order of
\* insertion (a batch in batch order, whether or not the key held pulses),
\* and an insertion under one key leaves the sequence of every other key
\* as it was.
C15_InsertionOrder == [](C15_State) /\ [][C15_Step]_vars

\* a batch of two was added to a key that held one pulse, another key was
\* filled, and the lookup returned the three pulses in order
C15_Witness ==
  /\ rr_call.called
  /\ rr_call.key = <<4, 1, 0>>
  /\ rr_call.value = <<Pulse(60, 3), Pulse(55, 1), Pulse(60, 3)>>
  /\ Len(inserted) = 3
  /\ inserted[1].pulses = <<Pulse(60, 3)>>
  /\ inserted[2].key = <<4, 1, 1>>
  /\ Len(inserted[3].pulses) = 2

C16_State ==
  rr_call.called =>
    /\ ~InsertedKey(inserted, rr_call.key) =>
         /\ rr_call.threw = "MissingKey"
         /\ rr_call.key \notin DOMAIN pulses_
    /\ InsertedKey(inserted, rr_call.key) => rr_call.threw = "none"

C16_Step == (rr_call' # rr_call /\ rr_call'.called) => pulses_' = pulses_

\* C16: get_pulses fails with MissingKey whenever no insertion was made
\* under the exact three-level key (card absent, channel absent under the
\* card, or minibuffer absent under the channel); it never creates the key
\* and never returns an empty sequence for a key that was never inserted.
C16_MissingKey == [](C16_State) /\ [][C16_Step]_vars

\* card 4 holds channel 1 with minibuffer 0 only; the lookup of another
\* minibuffer of that channel failed
C16_Witness ==
  /\ rr_call.called
  /\ rr_call.key = <<4, 1, 1>>
  /\ rr_call.threw = "MissingKey"
  /\ DOMAIN pulses_ = {<<4, 1, 0>>}

\* the pulses behind a tank charge: the pulses of minibuffer mb that start
\* in [start_time, start_time + 40), on the channels outside the exclusion
\* list; with tank_cards_only, on the water tank cards alone
Contributing(pulses, mb, start_time, tank_cards_only) ==
  UNION { {<<k, i>> : i \in {j \in 1..Len(pulses[k]) :
                              /\ pulses[k][j].start_time >= start_time
                              /\ pulses[k][j].start_time
                                   < start_time + TANK_CHARGE_WINDOW_LENGTH}} :
          k \in {x \in DOMAIN pulses :
                   /\ x[3] = mb
                   /\ <<x[1], x[2]>> \notin
                        {<<4, 1>>, <<18, 0>>, <<8, 2>>, <<14, 0>>}
                   /\ tank_cards_only => x[1] \in water_pmt_cards} }

RECURSIVE ChargeOf(_, _)
ChargeOf(pulses, S) ==
  IF S = {} THEN 0
  ELSE LET x == CHOOSE y \in S : TRUE
       IN pulses[x[1]][x[2]].charge + ChargeOf(pulses, S \ {x})

\* the tank charge and the channel count are those of the set
TankChargeIs(S) ==
  /\ ~ap_tank.threw
  /\ ap_tank.charge = ChargeOf(ap_args.pulses, S)
  /\ ap_tank.num_unique = Cardinality({x[1] : x \in S})

C18_TankVeto ==
  (ap_tank.called /\ ~ap_tank.threw) =>
    /\ (ap_tank.num_unique >= 8 \/ ap_tank.charge >= 3) =>
         /\ ~ap_result.value
         /\ ap_result.cuts = <<"veto", "tank">>
    /\ (ap_tank.num_unique < 8 /\ ap_tank.charge < 3) =>
         ap_result.cuts = <<"veto", "tank", "coincidence">>
    /\ ap_result.value => (ap_tank.num_unique < 8 /\ ap_tank.charge < 3)

\* eight channels with a pulse of no charge in the window: rejected by the
\* count alone, with a paired pulse 5 ns from the candidate
C18_Witness ==
  /\ ap_tank.called
  /\ ap_tank.num_unique = 8
  /\ ap_tank.charge = 0
  /\ ap_result = Verdict(FALSE, FALSE, <<"veto", "tank">>)
  /\ ap_args.pulses[<<18, 0, 0>>] = <<Pulse(55, 1)>>
  /\ ap_args.pulse = Pulse(50, 1)

\* C19: approve_event rejects the candidate unless a pulse of the paired
\* channel (card 18, channel 0) in the same minibuffer starts less than 40
\* ns from the candidate; a paired pulse 5 ns away meets the requirement,
\* and an empty pulse list of the paired channel always rejects.
C19_Coincidence ==
  ap_args.called =>
    LET a == ap_args
        r == ap_result
        held == HasKey(a.pulses, 18, 0, a.m)
        paired == IF held THEN get_pulses(a.pulses, 18, 0, a.m) ELSE <<>>
        distances == {IF a.pulse.start_time >= paired[i].start_time
                        THEN a.pulse.start_time - paired[i].start_time
                        ELSE paired[i].start_time - a.pulse.start_time :
                      i \in 1..Len(paired)}
        near == \E x \in distances : x < 40
    IN /\ r.value => near
       /\ (held /\ paired = <<>>) => ~r.value /\ ~r.threw
       /\ r.cuts = <<"veto", "tank", "coincidence">> =>
            /\ (held /\ near) => r.value
            /\ (held /\ 5 \in distances) => r.value
            /\ (held /\ ~near) => ~r.value /\ ~r.threw

\* the only paired pulse starts 40 ns after the candidate, which passed the
\* dead-time veto and the tank charge cut: rejected
C19_Witness ==
  /\ ap_args.called
  /\ ap_args.pulse = Pulse(50, 1)
  /\ HasKey(ap_args.pulses, 18, 0, 0)
  /\ ap_args.pulses[<<18, 0, 0>>] = <<Pulse(90, 1)>>
  /\ ap_result = Verdict(FALSE, FALSE, <<"veto", "tank", "coincidence">>)

\* the counts and the histogram before and after a step that examined a
\* pulse
C20_Step ==
  (nh_last' # nh_last /\ nh_last'.called) =>
    LET t == nh_last'.start_time
        in_background == t >= 10 /\ t < 8000
        in_signal == t >= 20000 /\ t < 80000
    IN IF nh_last'.outcome = "accepted"
         THEN /\ nh_background' = nh_background
                                    + (IF in_background THEN 1 ELSE 0)
              /\ nh_raw_signal' = nh_raw_signal
                                    + (IF in_signal THEN 1 ELSE 0)
              /\ ~(nh_background' # nh_background
                     /\ nh_raw_signal' # nh_raw_signal)
              /\ nh_time_hist' = Fill(nh_time_hist, t)
         ELSE /\ nh_background' = nh_background
              /\ nh_raw_signal' = nh_raw_signal
              /\ nh_time_hist' = nh_time_hist

\* the counts change with an accepted pulse only
C20_Frame ==
  (nh_pc \in {"chain", "entry", "pulse", "finish"}
     /\ (nh_background' # nh_background \/ nh_raw_signal' # nh_raw_signal
           \/ nh_time_hist' # nh_time_hist)) =>
    (nh_last' # nh_last /\ nh_last'.called /\ nh_last'.outcome = "accepted")

\* C20: in non-Hefty mode each accepted event adds one to the background
\* count iff its start time is in [10, 8000) ns and one to the raw signal
\* count iff its start time is in [20000, 80000) ns; no accepted event adds
\* to both counts, and a rejected pulse adds to neither count nor to the
\* histogram.
C20_NonHeftyWindows == [][C20_Step /\ C20_Frame]_vars

\* the pulse at 7999 ns was accepted after the one at 10 ns: two background
\* events, no signal event
C20_Witness ==
  /\ nh_last.called
  /\ nh_last.outcome = "accepted"
  /\ nh_last.start_time = 7999
  /\ nh_background = 2
  /\ nh_raw_signal = 0

C21_Step ==
  (last' # last /\ last'.outcome = "accepted") =>
    LET t == last'.event_time
        label == last'.label
    IN /\ last'.beam_time # 0
       /\ raw_signal' = raw_signal
                          + (IF t >= 10000 /\ t < 70000 THEN 1 ELSE 0)
       /\ background' = background
                          + (IF label \in {SOFTWARE_MINIBUFFER_LABEL,
                                            PERIODIC_MINIBUFFER_LABEL,
                                            MINRATE_MINIBUFFER_LABEL}
                               THEN 1 ELSE 0)

C22_ExpectedBackground ==
  /\ hefty_out.called =>
       LET norm_factor == hefty_out.time_hist.factor
           scale == Reduce(<<60000 * num_beam_minibuffers * norm_factor[1],
                             2000 * num_background_minibuffers
                               * norm_factor[2]>>)
       IN /\ hefty_out.background.value
               = Reduce(<<background * scale[1], scale[2]>>)
          /\ hefty_out.background.error.times = scale
  /\ nh_out.called =>
       LET norm_factor == nh_out.time_hist.factor
           scale == Reduce(<<60000 * norm_factor[1], 7990 * norm_factor[2]>>)
       IN /\ nh_out.background.value
               = Reduce(<<nh_background * scale[1], scale[2]>>)
          /\ nh_out.background.error.times = scale

\* Hefty mode: one background event in one background minibuffer, one beam
\* minibuffer, norm_factor 1/2: 1 / 2000 x 60000 x 1/2 = 15
C22_Witness ==
  /\ hefty_mode
  /\ hefty_out.called
  /\ background = 1
  /\ num_background_minibuffers = 1
  /\ num_beam_minibuffers = 1
  /\ hefty_out.background.value = <<15, 1>>
  /\ hefty_out.background.error.times = <<15, 1>>

(***************************************************************************)
(* make_timing_distribution: the returned rate                             *)
(***************************************************************************)
\* the square of an error kept as a square root times a fraction
ErrorSquared(error) ==
  Reduce(<<error.root_of * error.times[1] * error.times[1],
           error.times[2] * error.times[2]>>)

\* C23: the rate make_timing_distribution returns is the scaled raw signal
\* minus the scaled expected background, and the square of its error is the
\* sum of the squares of the two errors (stated for a finite background)
C23_SignalMinusBackground ==
  td_out.called /\ td_out.background.value[2] # 0 =>
    /\ td_out.rate.value = RSub(td_out.raw_signal.value, td_out.background.value)
    /\ ErrorSquared(td_out.rate.error)
         = RAdd(ErrorSquared(td_out.raw_signal.error),
                ErrorSquared(td_out.background.error))

\* the whole number whose square root is the Poisson error of a count, with
\* the floor of one
FlooredRoot(count) == IF count = 0 THEN 1 ELSE count

\* C24: in the Hefty and in the non-Hefty path the error given to the
\* background and to the raw signal before scaling is 1 for a count of 0 and
\* the square root of the count for a count of 1 or more
C24_PoissonFloor ==
  /\ hefty_out.called =>
       /\ hefty_out.background.error.root_of = FlooredRoot(background)
       /\ hefty_out.raw_signal.error.root_of = FlooredRoot(raw_signal)
  /\ nh_out.called =>
       /\ nh_out.background.error.root_of = FlooredRoot(nh_background)
       /\ nh_out.raw_signal.error.root_of = FlooredRoot(nh_raw_signal)

(***************************************************************************)
(* ValueAndError arithmetic                                                *)
(***************************************************************************)
\* a finite double with all MantissaBits bits of precision
Normal(q) ==
  /\ q[2] # 0
  /\ q[1] # 0
  /\ LeqPow(<<Abs(q[1]), q[2]>>, MantissaBits - 1 + MinExponent)

\* the product of x neither overflowed nor underflowed
Kept(product, x) == x[1] = 0 \/ Normal(product)

\* r is x up to the rounding of a multiplication and a division: their
\* relative difference is below 2^(1 - MantissaBits)
Restored(r, x) ==
  IF r[2] = 0 \/ x[2] = 0 THEN r = x
  ELSE LET diff == RSub(r, x)
       IN Abs(diff[1]) * Pow2(MantissaBits - 1) * x[2] < Abs(x[1]) * diff[2]
            \/ r = x

\* what operator call nr. i of the history has to return and to leave
Propagated(i) ==
  LET h == ve_hist[i]
      product == [value |-> Round(RMul(h.this.value, h.operand)),
                  error |-> Round(RMul(h.this.error, h.operand))]
      quotient == [value |-> Round(RDiv(h.this.value, h.operand)),
                   error |-> Round(RDiv(h.this.error, h.operand))]
  IN CASE h.op = "-" ->
            /\ h.returned.value = Round(RSub(h.this.value, h.operand.value))
            /\ h.returned.error
                 = FSqrt(Round(RAdd(Round(RMul(h.this.error, h.this.error)),
                                    Round(RMul(h.operand.error,
                                               h.operand.error)))))
            /\ h.after = h.this
       [] h.op = "*=" -> h.returned = product /\ h.after = product
       [] h.op = "*" -> h.returned = product /\ h.after = h.this
       [] h.op = "/=" -> h.returned = quotient /\ h.after = quotient
       [] h.op = "/" -> h.returned = quotient /\ h.after = h.this

\* calls i and i + 1 multiply an object by a non-zero factor and divide the
\* product by the same factor, the product neither overflowing nor
\* underflowing
RoundTrip(i) ==
  /\ i + 1 <= Len(ve_hist)
  /\ ve_hist[i].op \in {"*=", "*"}
  /\ ve_hist[i + 1].op \in {"/=", "/"}
  /\ ve_hist[i + 1].this = ve_hist[i].returned
  /\ ve_hist[i + 1].operand = ve_hist[i].operand
  /\ ve_hist[i].operand[1] # 0
  /\ Kept(ve_hist[i].returned.value, ve_hist[i].this.value)
  /\ Kept(ve_hist[i].returned.error, ve_hist[i].this.error)

\* C25 as stated: every operator propagates value and error as the claim
\* says, and dividing a product by its non-zero factor gives back exactly the
\* value and the error that were multiplied
C25_ExactRoundTrip ==
  /\ \A i \in DOMAIN ve_hist : Propagated(i)
  /\ \A i \in DOMAIN ve_hist :
       RoundTrip(i) => ve_hist[i + 1].returned = ve_hist[i].this

\* C25: a - b has the value a.value - b.value and the error
\* sqrt(a.error^2 + b.error^2); the in-place and the value-returning
\* multiplication (division) by k multiply (divide) value and error by k,
\* every operation rounded to a double; dividing a product by its non-zero
\* factor gives back the value and the error up to that rounding, if the
\* product neither overflowed nor underflowed
C25_ErrorPropagation ==
  /\ \A i \in DOMAIN ve_hist : Propagated(i)
  /\ \A i \in DOMAIN ve_hist :
       RoundTrip(i) =>
         /\ Restored(ve_hist[i + 1].returned.value, ve_hist[i].this.value)
         /\ Restored(ve_hist[i + 1].returned.error, ve_hist[i].this.error)

C25_Witness ==
  /\ Len(ve_hist) = 2
  /\ RoundTrip(1)
  /\ ve_hist[1].op = "*="
  /\ ve_hist[2].op = "/="
  /\ ve_hist[1].operand = Round(<<1, 10>>)
  /\ ve_hist[1].this = [value |-> <<-5, 2>>, error |-> <<3, 1>>]
  /\ ve_hist[2].returned.value = <<-11, 4>>

(***************************************************************************)
(* RawReader                                                               *)
(***************************************************************************)
\* entries with equal SequenceID are contiguous in the chain
Contiguous(s) ==
  \A i, j \in DOMAIN s :
    i < j /\ s[i] = s[j] => \A k \in i..j : s[k] = s[i]

\* the chain is contiguous, holds no SequenceID of -1 and no entry with a
\* negative array size
WellFormedChain ==
  /\ Contiguous(pmt_data_chain_)
  /\ \A i \in DOMAIN pmt_data_chain_ : pmt_data_chain_[i] # -1
  /\ rd_bad = 0

\* the first entries (from 1) of the SequenceID groups
GroupStarts == {i \in DOMAIN pmt_data_chain_ :
                  i = 1 \/ pmt_data_chain_[i - 1] # pmt_data_chain_[i]}

\* the first entry (from 1) of group nr. k
GroupStart(k) ==
  CHOOSE i \in GroupStarts : Cardinality({j \in GroupStarts : j <= i}) = k

\* the entries (from 0) of the group that entry i (from 1) starts
GroupEntries(i) ==
  {j - 1 : j \in {j \in DOMAIN pmt_data_chain_ :
                    /\ j >= i
                    /\ \A k \in i..j : pmt_data_chain_[k] = pmt_data_chain_[i]}}

SeqRange(s) == {s[i] : i \in DOMAIN s}

Ascending(s) == \A i, j \in DOMAIN s : i < j => s[i] < s[j]

\* C26: on a well-formed chain the next() calls of a reader that has only
\* been asked for next() return the groups in chain order, call nr. k the
\* whole of group nr. k and nothing else, and nullptr after the last group
C26_ForwardGroups ==
  WellFormedChain /\ (\A i \in DOMAIN rd_hist : ~rd_hist[i].reverse) =>
    \A k \in DOMAIN rd_hist :
      IF k <= Cardinality(GroupStarts)
      THEN /\ rd_hist[k].kind = "readout"
           /\ rd_hist[k].sequence_id = pmt_data_chain_[GroupStart(k)]
           /\ SeqRange(rd_hist[k].cards) = GroupEntries(GroupStart(k))
           /\ Ascending(rd_hist[k].cards)
      ELSE rd_hist[k].kind = "nullptr"

C26_Witness ==
  /\ pmt_data_chain_ = <<1, 1, 2>>
  /\ rd_bad = 0
  /\ Len(rd_hist) = 4
  /\ \A i \in 1..4 : ~rd_hist[i].reverse
  /\ rd_hist[1].cards = <<0, 1>>
  /\ rd_hist[2].cards = <<2>>
  /\ rd_hist[2].sequence_id = 2
  /\ rd_hist[3].kind = "nullptr"
  /\ rd_hist[4].kind = "nullptr"

\* the calls before call nr. k that returned a readout
ReadoutsBefore(k) == {j \in 1..(k - 1) : rd_hist[j].kind = "readout"}

\* the last of them
PreviousReadout(k) ==
  CHOOSE j \in ReadoutsBefore(k) : \A i \in ReadoutsBefore(k) : i <= j

\* C27: every card of a returned readout comes from an entry with the
\* readout's SequenceID, no entry with the SequenceID of the readout returned
\* last is loaded, and a returned readout never has the SequenceID of the
\* readout returned before it
C27_OwnSequenceID ==
  \A k \in DOMAIN rd_hist :
    rd_hist[k].kind = "readout" =>
      /\ rd_hist[k].cards # <<>>
      /\ \A i \in DOMAIN rd_hist[k].cards :
           /\ pmt_data_chain_[rd_hist[k].cards[i] + 1] = rd_hist[k].sequence_id
           /\ pmt_data_chain_[rd_hist[k].cards[i] + 1] # rd_hist[k].last
      /\ ReadoutsBefore(k) # {} =>
           /\ rd_hist[k].last = rd_hist[PreviousReadout(k)].sequence_id
           /\ rd_hist[k].sequence_id # rd_hist[PreviousReadout(k)].sequence_id

C27_Witness ==
  /\ pmt_data_chain_ = <<1, 2, 1>>
  /\ rd_bad = 0
  /\ Len(rd_hist) = 4
  /\ ~rd_hist[1].reverse /\ rd_hist[1].cards = <<0>>
  /\ ~rd_hist[2].reverse /\ rd_hist[2].cards = <<1>>
  /\ rd_hist[3].reverse /\ rd_hist[3].kind = "readout"
  /\ rd_hist[3].sequence_id = 1
  /\ rd_hist[4].reverse /\ rd_hist[4].kind = "nullptr"

\* the first entry (from 1) of the group with the given SequenceID, and the
\* number of that group, on a well-formed chain
GroupOf(sequence_id) ==
  CHOOSE i \in GroupStarts : pmt_data_chain_[i] = sequence_id

GroupNumber(sequence_id) ==
  Cardinality({j \in GroupStarts : j <= GroupOf(sequence_id)})

\* C28: on a well-formed chain every returned readout holds all entries of
\* its group, and after a returned readout previous() returns the group just
\* before it and next() the group just after it
C28_NeighbourGroups ==
  WellFormedChain =>
    \A k \in DOMAIN rd_hist :
      rd_hist[k].kind = "readout" =>
        /\ SeqRange(rd_hist[k].cards)
             = GroupEntries(GroupOf(rd_hist[k].sequence_id))
        /\ ReadoutsBefore(k) # {} =>
             GroupNumber(rd_hist[k].sequence_id)
               = GroupNumber(rd_hist[PreviousReadout(k)].sequence_id)
                   + (IF rd_hist[k].reverse THEN -1 ELSE 1)

\* C29: on a well-formed chain the current entry stays between 0 and the
\* number of entries, and a next() that follows a previous() which loaded
\* entry 0 returns a readout
C29_EntryInRange ==
  WellFormedChain =>
    /\ current_entry_ \in 0..Len(pmt_data_chain_)
    /\ \A k \in DOMAIN rd_hist :
         /\ k > 1
         /\ ~rd_hist[k].reverse
         /\ rd_hist[k - 1].reverse
         /\ rd_hist[k - 1].kind = "readout"
         /\ 0 \in SeqRange(rd_hist[k - 1].cards)
         => rd_hist[k].kind = "readout"

(***************************************************************************)
(* readout_pot                                                             *)
(***************************************************************************)
\* index entry nr. entry (from 0) holds the trigger time and the five
\* seconds after it
Suitable(time, entry) ==
  /\ beam_index[entry + 1][1] <= time
  /\ time + 5000 <= beam_index[entry + 1][2]

\* the entries looked up are consecutive entries of the index, taken round
\* and round from the selected entry, or from entry 0 if none is selected
Cyclic(search, selected_entry) ==
  LET from == IF search.selected THEN selected_entry ELSE 0
  IN \A i \in DOMAIN search.entries :
       search.entries[i] = (from + i - 1) % Len(beam_index)

\* a search in progress or ended has gone round the index from the selected
\* entry and met no suitable entry before the last one it looked up
SearchInOrder ==
  /\ Cyclic(examined, old_beam_entry)
  /\ \A i \in 1..(Len(examined.entries) - 1) :
       ~Suitable(ms_since_epoch, examined.entries[i])

\* the record filled last: a found entry is the suitable entry the search
\* met first, and the search was given up only with no suitable entry in
\* the index, after every entry was looked up, with the default status
LastRecordRight ==
  out_tree.entries > 0 =>
    LET e == out_tree.examined.entries
    IN /\ Cyclic(out_tree.examined, out_tree.old_beam_entry)
       /\ \A i \in 1..(Len(e) - 1) : ~Suitable(out_tree.ms_since_epoch, e[i])
       /\ out_tree.found_ok =>
            /\ e # <<>>
            /\ out_tree.beam_entry = e[Len(e)]
            /\ Suitable(out_tree.ms_since_epoch, e[Len(e)])
       /\ ~out_tree.found_ok =>
            /\ \A k \in 0..(Len(beam_index) - 1) :
                 /\ ~Suitable(out_tree.ms_since_epoch, k)
                 /\ \E i \in DOMAIN e : e[i] = k
            /\ out_tree.beam_status = "default"

\* one record for every minibuffer whose search is over
OneRecordEach ==
  /\ pot_pc # "out_of_range"
  /\ out_tree.entries
       = minibuffers_begun - (IF pot_pc \in {"search", "status"} THEN 1 ELSE 0)

C30_State ==
  beam_index # <<>> => SearchInOrder /\ LastRecordRight /\ OneRecordEach

\* C30: with a non-empty beam index every search ends, having gone round
\* the index from the selected entry to the first suitable entry, or,
\* with no suitable entry in the index, to the second passing of its end
\* and the default status; one record is filled for the minibuffer and
\* the minibuffer loop goes on
C30_SearchTerminates ==
  /\ []C30_State
  /\ (beam_index # <<>> /\ pot_pc = "search") ~> (pot_pc = "minibuffer")

C30_Witness ==
  /\ beam_index = <<<<0, 10000>>, <<10000, 20000>>>>
  /\ pot_pc = "minibuffer"
  /\ out_tree.entries = 2
  /\ out_tree.ms_since_epoch = 5001
  /\ out_tree.examined = [selected |-> TRUE, entries |-> <<1, 0, 1>>]
  /\ out_tree.old_beam_entry = 1
  /\ ~out_tree.found_ok
  /\ out_tree.beam_status = "default"
  /\ beam_entry = 2

====
